---------------------------- MODULE Spec2Model ----------------------------
(***************************************************************************)
(* A model of the Semantic Notes plugin: the in-memory vector store        *)
(* (VectorDatabaseManager), its similarity search and reranker, the        *)
(* embedding manager with its deterministic fallback, the chunker, and the *)
(* plugin's snapshot persistence and life cycle.                           *)
(*                                                                         *)
(* Representation.                                                         *)
(*  - A JavaScript string is a sequence of characters, each a string.      *)
(*  - A number[] embedding of length D is the record [dim |-> D,           *)
(*    head |-> h]: its first Len(h) coordinates are h, the others are 0.   *)
(*    A coordinate c stands for the real number c / VecUnit.               *)
(*  - A score s stands for the real number s / ScoreUnit.                  *)
(*  - The Map<string, TextChunk> is the sequence of its values in          *)
(*    insertion order (the order a JavaScript Map iterates in).            *)
(*  - The id string `${path}-${i}` is the pair <<path, i>>.                *)
(***************************************************************************)
EXTENDS Integers, Sequences, FiniteSets, TLC

VARIABLES
    db,         \* VectorDatabaseManager.db, in insertion order
    em,         \* the EmbeddingManager: model name, dimension, model loaded
    loading,    \* the number of loadModel calls waiting for their model
    ret,        \* the last call observed: its name, arguments and return value
    vault,      \* the TFile objects created so far, each with its content
    disk,       \* data.json: what loadData() returns
    settings,   \* the SettingsManager's fields
    phase,      \* "unloaded", "loaded" (onload done) or "ready" (layout ready)
    loadedEmbeddings,   \* onload's local of that name
    autoSave,   \* the auto-save interval is registered
    runs,       \* the indexFile runs in flight
    pending,    \* the files indexExistingNotes' loop has still to index
    now,        \* Date.now()
    writes,     \* the saveData calls whose write has not landed in data.json
    rag         \* RAGService: its openRouter client

vars == <<db, em, loading, ret, vault, disk, settings, phase,
          loadedEmbeddings, autoSave, runs, pending, now, writes, rag>>

\* the variables of the plugin around the store and the embedding manager
pluginVars == <<vault, disk, settings, phase, loadedEmbeddings, autoSave,
                runs, pending, now, writes, rag>>

----------------------------------------------------------------------------
(* Generic helpers                                                         *)

Min(a, b) == IF a < b THEN a ELSE b

Max(a, b) == IF a > b THEN a ELSE b

Abs(a) == IF a < 0 THEN -a ELSE a

Range(s) == {s[i] : i \in 1..Len(s)}

\* JavaScript `undefined`
Undefined == [undefined |-> TRUE]

----------------------------------------------------------------------------
(* Strings                                                                 *)

SP == " "

NL == "\n"

\* the character ` (a string of the module cannot hold it)
BT == "backtick"

\* the characters the regular expression class \s matches, of those modelled
IsSpace(c) == c \in {SP, NL}

\* String.prototype.toLowerCase, on one character
LowerChar(c) ==
    CASE c = "A" -> "a"
      [] c = "B" -> "b"
      [] c = "C" -> "c"
      [] c = "D" -> "d"
      [] c = "E" -> "e"
      [] c = "F" -> "f"
      [] c = "X" -> "x"
      [] c = "Y" -> "y"
      [] c = "Z" -> "z"
      [] OTHER -> c

toLowerCase(s) == [i \in 1..Len(s) |-> LowerChar(s[i])]

\* String.prototype.indexOf(needle) as a 0-based index, -1 when absent
indexOf(s, needle) ==
    LET hits == {i \in 0..(Len(s) - Len(needle)) :
                    SubSeq(s, i + 1, i + Len(needle)) = needle}
    IN  IF hits = {} THEN -1 ELSE CHOOSE i \in hits : \A j \in hits : i <= j

\* String.prototype.includes
includes(s, needle) == indexOf(s, needle) >= 0

\* String.prototype.trim
trim(s) ==
    LET keep == {i \in 1..Len(s) : ~IsSpace(s[i])}
    IN  IF keep = {} THEN <<>>
        ELSE SubSeq(s, CHOOSE i \in keep : \A j \in keep : i <= j,
                       CHOOSE i \in keep : \A j \in keep : i >= j)

\* String.prototype.split(/\s+/): the pieces between maximal runs of
\* white space, the empty pieces at either end included
RECURSIVE SplitFrom(_, _, _)
SplitFrom(s, i, cur) ==
    IF i > Len(s) THEN <<cur>>
    ELSE IF IsSpace(s[i])
         THEN IF i > 1 /\ IsSpace(s[i - 1])
              THEN SplitFrom(s, i + 1, cur)
              ELSE <<cur>> \o SplitFrom(s, i + 1, <<>>)
         ELSE SplitFrom(s, i + 1, Append(cur, s[i]))

splitWhitespace(s) == SplitFrom(s, 1, <<>>)

\* query.split(/\s+/).filter(w => w.length > 2)
LongTokens(s) == SelectSeq(splitWhitespace(s), LAMBDA w : Len(w) > 2)

----------------------------------------------------------------------------
(* Vector store: VectorDatabaseManager                                     *)

\* a removeFile that selects the entries by the path their id starts with
removeFileByIdPath(d, path) == SelectSeq(d, LAMBDA c : c.id[1] # path)

\* removeFile's loop: every entry whose chunk.path is `path` is deleted
removeFile(d, path) == SelectSeq(d, LAMBDA c : c.path # path)

\* the value removeFile returns: the number of entries it deleted
removeFileCount(d, path) == Len(d) - Len(removeFile(d, path))

\* an addChunk that always appends
addChunkAppend(d, chunk) == Append(d, chunk)

\* Map.set: replaces the value of an existing key in place, appends a new key
addChunk(d, chunk) ==
    IF \E i \in 1..Len(d) : d[i].id = chunk.id
    THEN [i \in 1..Len(d) |-> IF d[i].id = chunk.id THEN chunk ELSE d[i]]
    ELSE Append(d, chunk)

clear(d) == <<>>

size(d) == Len(d)

----------------------------------------------------------------------------
(* Vectors and scores                                                      *)

\* a coordinate c of a vector stands for the real number c / VecUnit
VecUnit == 25

\* a score s stands for the real number s / ScoreUnit
ScoreUnit == 1000000

\* the number[] of length `dim` that starts with `head` and is 0 after it
Vec(dim, head) == [dim |-> dim, head |-> head]

\* Array.prototype.length of an embedding
VecLength(v) == v.dim

RECURSIVE SumSeq(_)
SumSeq(s) == IF s = <<>> THEN 0 ELSE s[1] + SumSeq(Tail(s))

\* Math.sqrt; exact on the perfect squares, which are the only sums of
\* squares the vectors of this model have
Sqrt(n) == CHOOSE r \in 0..n : r * r <= n /\ (r + 1) * (r + 1) > n

Dot(v, w) ==
    SumSeq([i \in 1..Min(Len(v.head), Len(w.head)) |-> v.head[i] * w.head[i]])

\* a cosineSimilarity that does not compare the two lengths
cosineSimilarityUnchecked(vec1, vec2) ==
    LET mag1 == Sqrt(Dot(vec1, vec1))
        mag2 == Sqrt(Dot(vec2, vec2))
    IN  IF mag1 = 0 \/ mag2 = 0 THEN 0
        ELSE (Dot(vec1, vec2) * ScoreUnit) \div (mag1 * mag2)

cosineSimilarity(vec1, vec2) ==
    IF VecLength(vec1) # VecLength(vec2) THEN 0
    ELSE LET mag1 == Sqrt(Dot(vec1, vec1))
             mag2 == Sqrt(Dot(vec2, vec2))
         IN  IF mag1 = 0 \/ mag2 = 0 THEN 0
             ELSE (Dot(vec1, vec2) * ScoreUnit) \div (mag1 * mag2)

----------------------------------------------------------------------------
(* Similarity search and reranking: VectorDatabaseManager                  *)

\* a boost of nothing
NoBoost == 0 * ScoreUnit

\* boostFactor = 0.3 of searchSimilar, and the 0.3 of rerankResultsImproved
BoostFactor == (3 * ScoreUnit) \div 10

\* number of the words that occur in the text
MatchCount(words, text) ==
    Cardinality({i \in 1..Len(words) : includes(text, words[i])})

\* VectorDatabaseManager.exactMatch, the flag searchSimilar boosts by
exactMatch(query, text) ==
    LET normalizedQuery == toLowerCase(query)
        normalizedText == toLowerCase(text)
        queryWords == LongTokens(normalizedQuery)
    IN  \/ includes(normalizedText, normalizedQuery)
        \/ /\ Len(queryWords) > 1
           /\ 2 * MatchCount(queryWords, normalizedText) > Len(queryWords)

\* the exactMatch helper inside rerankResultsImproved
rerankExactMatch(query, text) ==
    LET normalizedQuery == trim(toLowerCase(query))
        normalizedText == toLowerCase(text)
        queryTokens == LongTokens(normalizedQuery)
    IN  \/ includes(normalizedText, normalizedQuery)
        \/ /\ Len(queryTokens) > 0
           /\ 2 * MatchCount(queryTokens, normalizedText) > Len(queryTokens)

\* Array.prototype.sort((a, b) => b.score - a.score): descending, stable
RECURSIVE InsertByScore(_, _)
InsertByScore(sorted, item) ==
    IF sorted = <<>> THEN <<item>>
    ELSE IF Head(sorted).score >= item.score
         THEN <<Head(sorted)>> \o InsertByScore(Tail(sorted), item)
         ELSE <<item>> \o sorted

RECURSIVE sortByScore(_)
sortByScore(items) ==
    IF items = <<>> THEN <<>>
    ELSE InsertByScore(sortByScore(SubSeq(items, 1, Len(items) - 1)),
                       items[Len(items)])

\* a slice that cuts nothing
sliceAll(s, n) == s

\* Array.prototype.slice(0, n)
slice(s, n) == SubSeq(s, 1, Min(n, Len(s)))

\* a test for an embedding that takes the empty array for one
HasEmbeddingOrEmpty(chunk) == chunk.embedding # Undefined

\* the chunks searchSimilar scores: those with a non-empty embedding
HasEmbedding(chunk) ==
    chunk.embedding # Undefined /\ VecLength(chunk.embedding) # 0

\* a scoring loop that writes the boosted score into the chunk itself
scoredChunksWritingChunk(d, query, queryEmbedding) ==
    LET kept == SelectSeq(d, HasEmbedding)
        scored == [i \in 1..Len(kept) |->
                     LET similarity == cosineSimilarity(queryEmbedding,
                                                        kept[i].embedding)
                         hasExactMatch == exactMatch(query, kept[i].text)
                         score == IF hasExactMatch
                                  THEN similarity + BoostFactor
                                  ELSE similarity
                     IN  [chunk |-> [id |-> kept[i].id,
                                     text |-> kept[i].text,
                                     path |-> kept[i].path,
                                     title |-> kept[i].title,
                                     embedding |-> kept[i].embedding,
                                     mtime |-> kept[i].mtime,
                                     score |-> score],
                          score |-> score,
                          hasExactMatch |-> hasExactMatch]]
    IN  sortByScore(scored)

\* searchSimilar, lines 311-340: score, boost and sort the chunks
scoredChunks(d, query, queryEmbedding) ==
    LET kept == SelectSeq(d, HasEmbedding)
        scored == [i \in 1..Len(kept) |->
                     LET similarity == cosineSimilarity(queryEmbedding,
                                                        kept[i].embedding)
                         hasExactMatch == exactMatch(query, kept[i].text)
                     IN  [chunk |-> kept[i],
                          score |-> IF hasExactMatch
                                    THEN similarity + BoostFactor
                                    ELSE similarity,
                          hasExactMatch |-> hasExactMatch]]
    IN  sortByScore(scored)

\* searchSimilar, lines 343-351: the top 2 * limit, formatted. The field id
\* is not in the code's SearchResult: it names the chunk a result was made
\* from and no operation of the model reads it.
formatResults(items) ==
    [i \in 1..Len(items) |->
        [path |-> items[i].chunk.path,
         title |-> items[i].chunk.title,
         text |-> items[i].chunk.text,
         score |-> items[i].score,
         id |-> items[i].chunk.id]]

\* The chunk objects of the store after searchSimilar: the wrappers of
\* scoredChunks hold the store's chunk objects themselves, so what the
\* scoring loop, the boost loop and the sort leave in a wrapper's `chunk`
\* is what the store holds under that id afterwards.
storeAfterSearch(d, query, queryEmbedding) ==
    LET scored == scoredChunks(d, query, queryEmbedding)
        wrapperOf(k) == CHOOSE i \in 1..Len(scored) : scored[i].chunk.id = d[k].id
    IN  [k \in 1..Len(d) |->
            IF HasEmbedding(d[k]) THEN scored[wrapperOf(k)].chunk ELSE d[k]]

\* Factor 2 of rerankResultsImproved: 0.1 * (1 - min(1, length / 2000))
lengthScore(text) ==
    ((ScoreUnit \div 10) * (2000 - Min(2000, Len(text)))) \div 2000

\* Factor 3 of rerankResultsImproved: the proximity of the query's words
proximityScore(query, resultText) ==
    LET words == LongTokens(toLowerCase(query))
        n == Len(words)
        text == toLowerCase(resultText)
        weight(i, j) ==
            LET pos1 == indexOf(text, words[i])
                pos2 == indexOf(text, words[j])
                distance == Abs(pos1 - pos2)
            IN  IF i < j /\ pos1 >= 0 /\ pos2 >= 0
                THEN ((ScoreUnit \div 10)
                        * (Len(text) - Min(Len(text), 2 * distance)))
                     \div Len(text)
                ELSE 0
        proximitySumWeight ==
            SumSeq([k \in 1..(n * n) |->
                      weight(((k - 1) \div n) + 1, ((k - 1) % n) + 1)])
        wordPairs == (n * (n - 1)) \div 2
    IN  IF n > 1 /\ wordPairs > 0 THEN proximitySumWeight \div wordPairs
        ELSE 0

combinedScore(query, result) ==
    result.score
      + (IF rerankExactMatch(query, result.text) THEN BoostFactor ELSE 0)
      + lengthScore(result.text)
      + proximityScore(query, result.text)

rerankResultsImproved(query, results, limit) ==
    LET scoredResults ==
            [i \in 1..Len(results) |->
                [results[i] EXCEPT !.score = combinedScore(query, results[i])]]
    IN  slice(sortByScore(scoredResults), limit)

\* the default value of rerankResultsImproved's parameter `limit`
RerankDefaultLimit == 5

\* rerankResults calls rerankResultsImproved without a limit
rerankResults(query, results) ==
    rerankResultsImproved(query, results, RerankDefaultLimit)

\* searchSimilar after the query was embedded
searchSimilar(d, query, queryEmbedding, limit, useReranking) ==
    IF size(d) = 0 THEN <<>>
    ELSE LET topResults == slice(scoredChunks(d, query, queryEmbedding),
                                 limit * 2)
             formattedResults == formatResults(topResults)
         IN  IF useReranking
             THEN slice(rerankResults(query, formattedResults), limit)
             ELSE slice(formattedResults, limit)

----------------------------------------------------------------------------
(* Embedding manager: EmbeddingManager                                     *)

UAELarge == "Xenova/UAE-Large-V1"

BgeSmall == "Xenova/bge-small-en-v1.5"

BgeBase == "Xenova/bge-base-en-v1.5"

BgeLarge == "Xenova/bge-large-en-v1.5"

\* the options of the settings tab's embedding model dropdown
EmbeddingModels == {UAELarge, BgeSmall, BgeBase, BgeLarge}

\* the table of loadModelIfNeeded and loadModel, keyed by what the model
\* name includes
ModelDimension(modelName) ==
    CASE modelName = BgeSmall -> 384
      [] modelName = BgeBase -> 768
      [] modelName = BgeLarge -> 1024
      [] modelName = UAELarge -> 1024
      [] OTHER -> 384

\* String.prototype.charCodeAt
charCode(c) ==
    CASE c = NL -> 10
      [] c = SP -> 32
      [] c = "#" -> 35
      [] c = "A" -> 65
      [] c = "B" -> 66
      [] c = "C" -> 67
      [] c = "D" -> 68
      [] c = "E" -> 69
      [] c = "F" -> 70
      [] c = "X" -> 88
      [] c = "Y" -> 89
      [] c = "Z" -> 90
      [] c = "_" -> 95
      [] c = BT -> 96
      [] c = "a" -> 97
      [] c = "b" -> 98
      [] c = "c" -> 99
      [] c = "d" -> 100
      [] c = "e" -> 101
      [] c = "f" -> 102
      [] c = "m" -> 109
      [] c = "p" -> 112
      [] c = "t" -> 116
      [] c = "x" -> 120
      [] c = "y" -> 121
      [] c = "z" -> 122

\* one round of hashString's loop, hash = ((hash << 5) - hash) + char and
\* hash = hash & hash: 31 * hash + char as a signed 32-bit integer, computed
\* on the two 16-bit halves of hash
hashRound(hash, char) ==
    LET hi == (hash \div 65536) % 65536
        lo == hash % 65536
        low == 31 * lo + char
        lo2 == low % 65536
        hi2 == (31 * hi + (low \div 65536)) % 65536
    IN  IF hi2 >= 32768 THEN (hi2 - 65536) * 65536 + lo2
        ELSE hi2 * 65536 + lo2

RECURSIVE hashFrom(_, _, _)
hashFrom(str, i, hash) ==
    IF i > Len(str) THEN hash
    ELSE hashFrom(str, i + 1, hashRound(hash, charCode(str[i])))

hashString(str) == IF Len(str) = 0 THEN 0 ELSE hashFrom(str, 1, 0)

\* The pseudo-random coordinates a seed yields, before normalisation:
\* seededRandom(hash + i * 0.1) - 0.5 in generateDeterministicEmbedding and
\* pseudoRandom(seed + i) - 0.5 in the model function of loadModelIfNeeded.
\* Both are Math.sin(seed) scaled; the model replaces them by a table of
\* coordinates, read at the seed.
RandomHeads ==
    << <<3, 4>>, <<8, -6>>, <<-3, 4>>, <<5, 0>>, <<-6, -8>>, <<0, -5>>,
       <<4, -3>> >>

seededRandomHead(hash) == RandomHeads[(hash % Len(RandomHeads)) + 1]

pseudoRandomHead(seed) == RandomHeads[((seed + 3) % Len(RandomHeads)) + 1]

\* normalizeVector
normalizeVector(vector) ==
    LET magnitude == Sqrt(Dot(vector, vector))
    IN  IF magnitude = 0
        THEN Vec(vector.dim,
                 [i \in 1..Len(vector.head) |-> IF i = 1 THEN VecUnit ELSE 0])
        ELSE Vec(vector.dim,
                 [i \in 1..Len(vector.head) |->
                     (vector.head[i] * VecUnit) \div magnitude])

\* a generateDeterministicEmbedding of the default dimension, whatever the
\* model's dimension is
generateDeterministicEmbedding384(embeddingDimension, text) ==
    normalizeVector(Vec(384, seededRandomHead(hashString(text))))

\* generateDeterministicEmbedding, under this.embeddingDimension
generateDeterministicEmbedding(embeddingDimension, text) ==
    normalizeVector(Vec(embeddingDimension, seededRandomHead(hashString(text))))

\* the function loadModelIfNeeded installs as this.embeddingModel, called
\* with { normalize: true }: its .data
embeddingModelData(embeddingDimension, text) ==
    LET seed == SumSeq([i \in 1..Len(text) |-> charCode(text[i])])
        embedding == Vec(embeddingDimension, pseudoRandomHead(seed))
        magnitude == Sqrt(Dot(embedding, embedding))
    IN  IF magnitude > 0
        THEN Vec(embeddingDimension,
                 [i \in 1..Len(embedding.head) |->
                     (embedding.head[i] * VecUnit) \div magnitude])
        ELSE embedding

\* text.replace(/```[\s\S]*?```/g, '') with fence = ``` and
\* text.replace(/`[^`]*`/g, '') with fence = `
RECURSIVE removeFenced(_, _, _)
removeFenced(s, fence, i) ==
    IF i > Len(s) THEN <<>>
    ELSE LET n == Len(fence)
             at(j) == j + n - 1 <= Len(s) /\ SubSeq(s, j, j + n - 1) = fence
             closers == {j \in (i + n)..Len(s) : at(j)}
         IN  IF at(i) /\ closers # {}
             THEN removeFenced(s, fence,
                    (CHOOSE j \in closers : \A k \in closers : j <= k) + n)
             ELSE <<s[i]>> \o removeFenced(s, fence, i + 1)

\* text.replace(/#{1,6}\s+(.*)/g, '$1')
RECURSIVE replaceHeaders(_, _)
replaceHeaders(s, i) ==
    IF i > Len(s) THEN <<>>
    ELSE LET notHash == {j \in i..Len(s) : s[j] # "#"}
             hashEnd == IF notHash = {} THEN Len(s) + 1
                        ELSE CHOOSE j \in notHash : \A k \in notHash : j <= k
             notSpace == {j \in hashEnd..Len(s) : ~IsSpace(s[j])}
             spaceEnd == IF notSpace = {} THEN Len(s) + 1
                         ELSE CHOOSE j \in notSpace : \A k \in notSpace : j <= k
             newlines == {j \in spaceEnd..Len(s) : s[j] = NL}
             lineEnd == IF newlines = {} THEN Len(s) + 1
                        ELSE CHOOSE j \in newlines : \A k \in newlines : j <= k
         IN  IF /\ s[i] = "#"
                /\ hashEnd - i <= 6
                /\ spaceEnd > hashEnd
             THEN SubSeq(s, spaceEnd, lineEnd - 1) \o replaceHeaders(s, lineEnd)
             ELSE <<s[i]>> \o replaceHeaders(s, i + 1)

\* text.replace(/\n{2,}/g, '\n')
RECURSIVE collapseNewlines(_)
collapseNewlines(s) ==
    IF s = <<>> THEN <<>>
    ELSE IF Len(s) >= 2 /\ s[1] = NL /\ s[2] = NL
         THEN collapseNewlines(Tail(s))
         ELSE <<s[1]>> \o collapseNewlines(Tail(s))

\* text.replace(/\s+/g, ' ')
RECURSIVE collapseWhitespace(_)
collapseWhitespace(s) ==
    IF s = <<>> THEN <<>>
    ELSE IF IsSpace(s[1])
         THEN IF Len(s) >= 2 /\ IsSpace(s[2])
              THEN collapseWhitespace(Tail(s))
              ELSE <<SP>> \o collapseWhitespace(Tail(s))
         ELSE <<s[1]>> \o collapseWhitespace(Tail(s))

\* preprocessTextForEmbedding. The texts of this model are written with
\* letters, blanks, line breaks, # and `, so of its replacements only those
\* for code, headers and white space can match; the others (emphasis,
\* rules, links, tags, images, quotes, list markers) need a character the
\* texts do not have and leave them as they are.
preprocessTextForEmbedding(text) ==
    trim(collapseWhitespace(collapseNewlines(
        replaceHeaders(
            removeFenced(removeFenced(text, <<BT, BT, BT>>, 1), <<BT>>, 1),
            1))))

\* the literal "empty_text" of embed
EmptyText == <<"e", "m", "p", "t", "y", "_", "t", "e", "x", "t">>

\* What becomes of the manager when embed finds no model and awaits
\* loadModelIfNeeded: the dimension is set from the model's name, and the
\* model function is installed unless the load fails.
loadModelIfNeeded(m, loadFails) ==
    IF m.embeddingModel THEN m
    ELSE [m EXCEPT !.embeddingDimension = ModelDimension(m.embeddingModelName),
                   !.embeddingModel = ~loadFails]

\* the provider outcomes of one embed call
EmbedOutcomes == {"ok", "providerFails", "loadFails"}

\* an embed whose inner catch lets the provider's error go to the caller
embedRethrowing(m, text, outcome) ==
    LET m2 == loadModelIfNeeded(m, outcome = "loadFails")
        processedText == preprocessTextForEmbedding(text)
    IN  IF ~m2.embeddingModel
        THEN [threw |-> FALSE, fallback |-> TRUE,
              data |-> generateDeterministicEmbedding(m2.embeddingDimension, text)]
        ELSE IF trim(processedText) = <<>>
        THEN [threw |-> FALSE, fallback |-> TRUE,
              data |-> generateDeterministicEmbedding(m2.embeddingDimension,
                                                      EmptyText)]
        ELSE IF outcome = "providerFails"
        THEN [threw |-> TRUE, fallback |-> FALSE, data |-> Undefined]
        ELSE [threw |-> FALSE, fallback |-> FALSE,
              data |-> embeddingModelData(m2.embeddingDimension, processedText)]

\* embed(text): what the promise settles with. threw: it rejected;
\* fallback: data is a deterministic embedding, not the provider's.
embed(m, text, outcome) ==
    LET m2 == loadModelIfNeeded(m, outcome = "loadFails")
        processedText == preprocessTextForEmbedding(text)
    IN  IF ~m2.embeddingModel
        THEN [threw |-> FALSE, fallback |-> TRUE,
              data |-> generateDeterministicEmbedding(m2.embeddingDimension, text)]
        ELSE IF trim(processedText) = <<>>
        THEN [threw |-> FALSE, fallback |-> TRUE,
              data |-> generateDeterministicEmbedding(m2.embeddingDimension,
                                                      EmptyText)]
        ELSE IF outcome = "providerFails"
        THEN [threw |-> FALSE, fallback |-> TRUE,
              data |-> generateDeterministicEmbedding(m2.embeddingDimension,
                                                      processedText)]
        ELSE [threw |-> FALSE, fallback |-> FALSE,
              data |-> embeddingModelData(m2.embeddingDimension, processedText)]

\* the manager as its constructor leaves it: the name from the settings,
\* the default dimension, no model
NewManager(modelName) ==
    [embeddingModelName |-> modelName,
     embeddingDimension |-> 384,
     embeddingModel |-> FALSE]

\* loadModel(modelName) up to its await: the name and the dimension are
\* set and the previous model is unloaded
loadModelStart(m, modelName) ==
    [embeddingModelName |-> modelName,
     embeddingDimension |-> ModelDimension(modelName),
     embeddingModel |-> FALSE]

\* loadModel after its await: loadModelIfNeeded has installed the model
\* function, or has thrown and loadModel returns false
loadModelEnd(m, loadFails) ==
    IF loadFails THEN m ELSE [m EXCEPT !.embeddingModel = TRUE]

----------------------------------------------------------------------------
(* The chunker (main.ts). Indices are JavaScript's: the character at       *)
(* index i of s is s[i + 1].                                               *)

\* a substring that starts one character late
substringLate(s, from, to) == SubSeq(s, from + 2, to)

\* str.substring(from, to)
substring(s, from, to) == SubSeq(s, from + 1, to)

\* the number of consecutive "#" from index i
RECURSIVE HashRun(_, _)
HashRun(s, i) ==
    IF i < Len(s) /\ s[i + 1] = "#" THEN 1 + HashRun(s, i + 1) ELSE 0

\* the number of consecutive \s characters from index i
RECURSIVE WsRun(_, _)
WsRun(s, i) ==
    IF i < Len(s) /\ IsSpace(s[i + 1]) THEN 1 + WsRun(s, i + 1) ELSE 0

\* the index of the first "\n" at or after i, or the length of s
RECURSIVE LineEnd(_, _)
LineEnd(s, i) ==
    IF i >= Len(s) \/ s[i + 1] = NL THEN Min(i, Len(s)) ELSE LineEnd(s, i + 1)

\* ^ under the m flag
IsLineStart(s, i) == i = 0 \/ s[i] = NL

\* Where a match of /^#{1,6}\s+.+$/m that starts at index i ends, or -1.
\* The hashes are all of the run (a seventh "#" is no \s); \s+ is greedy
\* and gives back characters until `.` finds one that is not "\n"; .+ then
\* runs to the end of that line.
headingMatchEnd(s, i) ==
    LET h == HashRun(s, i)
        w == WsRun(s, i + h)
        ks == {k \in 1..w : i + h + k < Len(s) /\ s[i + h + k + 1] # NL}
    IN  IF IsLineStart(s, i) /\ h \in 1..6 /\ ks # {}
        THEN LineEnd(s, i + h + (CHOOSE k \in ks : \A l \in ks : l <= k))
        ELSE -1

\* [...markdownContent.matchAll(headingRegex)]: the index of each match
RECURSIVE headingMatches(_, _)
headingMatches(s, i) ==
    IF i >= Len(s) THEN <<>>
    ELSE IF headingMatchEnd(s, i) >= 0
    THEN <<i>> \o headingMatches(s, headingMatchEnd(s, i))
    ELSE headingMatches(s, i + 1)

\* chunks.push(chunk) under `if (chunk.length > 0)`
pushNonEmpty(chunks, chunk) ==
    IF Len(chunk) > 0 THEN Append(chunks, chunk) ELSE chunks

\* the loop of chunkByHeadings from its i-th match on (i counts from 1)
RECURSIVE headingLoop(_, _, _, _, _)
headingLoop(s, matches, i, chunks, currentIndex) ==
    IF i > Len(matches)
    THEN IF currentIndex < Len(s)
         THEN pushNonEmpty(chunks, trim(substring(s, currentIndex, Len(s))))
         ELSE chunks
    ELSE IF matches[i] = 0
    THEN headingLoop(s, matches, i + 1, chunks, currentIndex)
    ELSE LET headingIndex == matches[i]
             before ==
                 IF headingIndex > currentIndex
                 THEN pushNonEmpty(chunks,
                          trim(substring(s, currentIndex, headingIndex)))
                 ELSE chunks
             nextHeadingIndex ==
                 IF i < Len(matches) /\ matches[i + 1] # 0
                 THEN matches[i + 1] ELSE Len(s)
             headingChunk == trim(substring(s, headingIndex, nextHeadingIndex))
         IN  headingLoop(s, matches, i + 1, pushNonEmpty(before, headingChunk),
                         nextHeadingIndex)

chunkByHeadings(markdownContent) ==
    LET matches == headingMatches(markdownContent, 0)
    IN  IF Len(matches) = 0 THEN <<markdownContent>>
        ELSE headingLoop(markdownContent, matches, 1, <<>>, 0)

\* Where a match of /\n\s*\n/ that starts at index i ends (the index after
\* its last "\n"), or -1: \s* is greedy, so the match ends with the last
\* "\n" of the whitespace run.
paragraphBreakEnd(s, i) ==
    LET w == WsRun(s, i + 1)
        js == {j \in (i + 1)..(i + w) : s[j + 1] = NL}
    IN  IF i < Len(s) /\ s[i + 1] = NL /\ js # {}
        THEN (CHOOSE j \in js : \A l \in js : l <= j) + 1
        ELSE -1

\* text.split(/\n\s*\n/), from the piece that starts at `from`
RECURSIVE splitParagraphs(_, _, _)
splitParagraphs(s, from, i) ==
    IF i >= Len(s) THEN <<substring(s, from, Len(s))>>
    ELSE IF paragraphBreakEnd(s, i) >= 0
    THEN <<substring(s, from, i)>>
           \o splitParagraphs(s, paragraphBreakEnd(s, i), paragraphBreakEnd(s, i))
    ELSE splitParagraphs(s, from, i + 1)

\* the loop of recursivelyChunkText from its i-th paragraph on
RECURSIVE paragraphLoop(_, _, _, _, _, _)
paragraphLoop(paragraphs, i, chunks, currentChunk, chunkSize, overlap) ==
    IF i > Len(paragraphs)
    THEN IF currentChunk # <<>> THEN Append(chunks, currentChunk) ELSE chunks
    ELSE LET paraText == trim(paragraphs[i])
         IN  IF paraText = <<>>
             THEN paragraphLoop(paragraphs, i + 1, chunks, currentChunk,
                                chunkSize, overlap)
             ELSE IF currentChunk # <<>>
                     /\ Len(currentChunk) + Len(paraText) > chunkSize
             THEN paragraphLoop(paragraphs, i + 1, Append(chunks, currentChunk),
                      IF overlap > 0 /\ Len(currentChunk) > overlap
                      THEN SubSeq(currentChunk, Len(currentChunk) - overlap + 1,
                                  Len(currentChunk)) \o <<NL, NL>> \o paraText
                      ELSE paraText,
                      chunkSize, overlap)
             ELSE paragraphLoop(paragraphs, i + 1, chunks,
                      IF currentChunk # <<>>
                      THEN currentChunk \o <<NL, NL>> \o paraText
                      ELSE paraText,
                      chunkSize, overlap)

recursivelyChunkText(text, chunkSize, overlap) ==
    paragraphLoop(splitParagraphs(text, 0, 0), 1, <<>>, <<>>, chunkSize, overlap)

\* the loop of chunkMarkdownContent from its i-th chunk on
RECURSIVE sizeLoop(_, _, _, _, _)
sizeLoop(chunks, i, finalChunks, maxSize, overlap) ==
    IF i > Len(chunks) THEN finalChunks
    ELSE sizeLoop(chunks, i + 1,
             IF Len(chunks[i]) > maxSize
             THEN finalChunks \o recursivelyChunkText(chunks[i], maxSize, overlap)
             ELSE IF Len(trim(chunks[i])) > 0
             THEN Append(finalChunks, chunks[i])
             ELSE finalChunks,
             maxSize, overlap)

\* chunkMarkdownContent with its two sizes as parameters
chunkMarkdown(markdownContent, maxSize, overlap) ==
    sizeLoop(chunkByHeadings(markdownContent), 1, <<>>, maxSize, overlap)

maxChunkSize == 1000

chunkOverlap == 200

chunkMarkdownContent(markdownContent) ==
    chunkMarkdown(markdownContent, maxChunkSize, chunkOverlap)

----------------------------------------------------------------------------
(* Settings and snapshot persistence (settings.ts, main.ts). Both go       *)
(* through Plugin.saveData / loadData, that is, the one data.json.         *)

\* JavaScript `null`: what loadData() gives when there is no data.json
Null == [null |-> TRUE]

\* the LLM model a new SettingsManager has
DefaultLlmModel == "google/gemini-2.5-pro-exp-03-25:free"

\* new SettingsManager(plugin)
DefaultSettings ==
    [openRouterApiKey |-> "",
     embeddingModel |-> UAELarge,
     contextLength |-> 5,
     llmModel |-> DefaultLlmModel,
     useReranking |-> TRUE,
     usePersistentStorage |-> TRUE]

\* `loaded.field || fallback` for a string: the fallback for a field that
\* is missing or ""
orDefault(loaded, field, fallback) ==
    IF field \in DOMAIN loaded /\ loaded[field] # ""
    THEN loaded[field] ELSE fallback

\* `loaded.field || fallback` for a number: the fallback for a field that
\* is missing or 0
numberOrDefault(loaded, field, fallback) ==
    IF field \in DOMAIN loaded /\ loaded[field] # 0
    THEN loaded[field] ELSE fallback

\* `loaded.field !== undefined ? loaded.field : true`
definedOrTrue(loaded, field) ==
    IF field \in DOMAIN loaded THEN loaded[field] ELSE TRUE

\* SettingsManager.loadSettings over the object loadData() returned
loadSettings(loadedSettings) ==
    IF loadedSettings = Null THEN DefaultSettings
    ELSE [openRouterApiKey |-> orDefault(loadedSettings, "openRouterApiKey", ""),
          embeddingModel |-> orDefault(loadedSettings, "embeddingModel", UAELarge),
          contextLength |-> numberOrDefault(loadedSettings, "contextLength", 5),
          llmModel |-> orDefault(loadedSettings, "llmModel", DefaultLlmModel),
          useReranking |-> definedOrTrue(loadedSettings, "useReranking"),
          usePersistentStorage |->
              definedOrTrue(loadedSettings, "usePersistentStorage")]

\* the object SettingsManager.saveSettings hands to saveData
saveSettings(s) ==
    [openRouterApiKey |-> s.openRouterApiKey,
     embeddingModel |-> s.embeddingModel,
     contextLength |-> s.contextLength,
     llmModel |-> s.llmModel,
     useReranking |-> s.useReranking,
     usePersistentStorage |-> s.usePersistentStorage]

\* `chunk.mtime || Date.now()`
mtimeOrNow(chunk, t) ==
    [chunk EXCEPT !.mtime = IF chunk.mtime = 0 THEN t ELSE chunk.mtime]

\* the chunks a snapshot or a load keeps: those with a truthy embedding
truthyEmbedding(chunk) == chunk.embedding # Undefined

\* saveEmbeddingsToDisk at time t: what data.json holds afterwards, `data`
\* being what it held before
saveEmbeddingsToDisk(d, m, data, t) ==
    IF size(d) = 0 THEN data
    ELSE [version |-> 1,
          modelName |-> m.embeddingModelName,
          chunks |-> [i \in 1..Len(SelectSeq(d, truthyEmbedding)) |->
                         mtimeOrNow(SelectSeq(d, truthyEmbedding)[i], t)],
          updatedAt |-> t]

\* The addChunk loop of loadEmbeddingsFromDisk: the store it leaves, and
\* whether it threw. An element of the list that is JSON null makes
\* `chunk.embedding` throw, with the chunks before it already added.
RECURSIVE addSavedChunks(_, _, _, _)
addSavedChunks(d, chunks, i, t) ==
    IF i > Len(chunks) THEN [threw |-> FALSE, db |-> d]
    ELSE IF chunks[i] = Null THEN [threw |-> TRUE, db |-> d]
    ELSE addSavedChunks(IF truthyEmbedding(chunks[i])
                        THEN addChunk(d, mtimeOrNow(chunks[i], t)) ELSE d,
                        chunks, i + 1, t)

\* `!savedData || !savedData.chunks || savedData.chunks.length === 0`
noSavedChunks(savedData) ==
    \/ savedData = Null
    \/ "chunks" \notin DOMAIN savedData
    \/ Len(savedData.chunks) = 0

\* a loadEmbeddingsFromDisk without the model check
loadEmbeddingsFromDiskAnyModel(savedData, m, d, t) ==
    IF noSavedChunks(savedData)
    THEN [loaded |-> FALSE, db |-> d]
    ELSE LET added == addSavedChunks(clear(d), savedData.chunks, 1, t)
         IN  [loaded |-> ~added.threw, db |-> added.db]

\* loadEmbeddingsFromDisk at time t over the store d: its return value and
\* the store afterwards. The catch block returns false and leaves the store
\* as the loop left it.
loadEmbeddingsFromDisk(savedData, m, d, t) ==
    IF noSavedChunks(savedData)
    THEN [loaded |-> FALSE, db |-> d]
    ELSE IF savedData.modelName # m.embeddingModelName
    THEN [loaded |-> FALSE, db |-> d]
    ELSE LET added == addSavedChunks(clear(d), savedData.chunks, 1, t)
         IN  [loaded |-> ~added.threw, db |-> added.db]

----------------------------------------------------------------------------
(* Inputs                                                                  *)

PathA == "a.md"

PathB == "b.md"

Paths == {PathA, PathB}

\* TFile.basename
basename(path) == IF path = PathA THEN "a" ELSE "b"

TextFox == <<"a", "b", "c", SP, "d", "e", "f">>

TextOther == <<"x", "y", "z">>

\* the largest number of chunks the store holds in SpecStore
MaxChunks == 3

\* the largest chunk index of an id in SpecStore
MaxIndex == 1

\* The chunks SpecStore's callers add. An id's path and the chunk's path are
\* chosen independently, as addChunk takes any TextChunk.
StoreChunks ==
    [id : Paths \X (0..MaxIndex),
     text : {TextFox, TextOther},
     path : Paths,
     title : {"a"},
     embedding : {Vec(384, <<15, 20>>)},
     mtime : {1}]

NoCall == [op |-> "none"]

\* RAGService before the plugin has made one: no client
NoRAGService == [openRouter |-> FALSE]

\* new RAGService(settings): initializeOpenRouter makes the client when the
\* API key is set
NewRAGService(s) == [openRouter |-> s.openRouterApiKey # ""]

\* a component is exercised on its own: no plugin is loaded
NoPlugin ==
    /\ vault = <<>>
    /\ disk = Null
    /\ settings = DefaultSettings
    /\ phase = "unloaded"
    /\ loadedEmbeddings = FALSE
    /\ autoSave = FALSE
    /\ runs = <<>>
    /\ pending = <<>>
    /\ now = 1
    /\ writes = <<>>
    /\ rag = NoRAGService

----------------------------------------------------------------------------
(* SpecStore: the vector store under its callers                           *)

\* the manager once initialize() has loaded the model `modelName`
LoadedManager(modelName) ==
    [embeddingModelName |-> modelName,
     embeddingDimension |-> ModelDimension(modelName),
     embeddingModel |-> TRUE]

StoreInit ==
    /\ db = <<>>
    /\ em = LoadedManager(BgeSmall)
    /\ loading = 0
    /\ ret = NoCall
    /\ NoPlugin

CallAddChunk ==
    \E chunk \in StoreChunks :
        /\ Len(addChunk(db, chunk)) <= MaxChunks
        /\ db' = addChunk(db, chunk)
        /\ ret' = [op |-> "addChunk", id |-> chunk.id, chunk |-> chunk]
        /\ UNCHANGED <<em, loading, pluginVars>>

CallRemoveFile ==
    \E path \in Paths :
        /\ db' = removeFile(db, path)
        /\ ret' = [op |-> "removeFile", path |-> path,
                   removed |-> removeFileCount(db, path)]
        /\ UNCHANGED <<em, loading, pluginVars>>

CallClear ==
    /\ db # <<>>
    /\ db' = clear(db)
    /\ ret' = [op |-> "clear"]
    /\ UNCHANGED <<em, loading, pluginVars>>

StoreNext == CallAddChunk \/ CallRemoveFile \/ CallClear

SpecStore == StoreInit /\ [][StoreNext]_vars

----------------------------------------------------------------------------
(* SpecSearch: searchSimilar over the stores of a bounded family           *)

TextRev == <<"d", "e", "f", SP, "x", SP, "a", "b", "c">>

QueryFox == <<"a", "b", "c", SP, "d", "e", "f">>

QueryUpper == <<SP, "A", "B", "C">>

QueryRev == <<"d", "e", "f", SP, "a", "b", "c">>

\* the empty query
QueryEmpty == <<>>

\* a query of white space only
QueryBlank == <<SP>>

SearchQueries == {QueryFox, QueryUpper, QueryRev, QueryEmpty, QueryBlank}

\* the empty number[]
EmptyVec == Vec(0, <<>>)

VecP == Vec(384, <<15, 20>>)

VecQ == Vec(384, <<20, -15>>)

\* an embedding made under a model of 1024 dimensions
VecL == Vec(1024, <<15, 20>>)

\* the largest store of SpecSearch whose chunks are drawn from all kinds
MaxSmallStore == 2

\* the largest store of SpecSearch
MaxStore == 6

\* the largest limit searchSimilar is called with in SpecSearch
MaxLimit == 6

SearchLimits == {1, 2, MaxLimit}

\* text and embedding of a chunk of a small store
SmallKinds ==
    [text : {TextFox, TextOther},
     embedding : {Undefined, EmptyVec, VecP, VecQ, VecL}]

\* text and embedding of a chunk of a long store
LongKinds == [text : {TextFox, TextRev}, embedding : {VecP}]

\* the store that holds chunks of the given kinds, inserted in this order
StoreOf(kinds) ==
    [i \in 1..Len(kinds) |->
        LET path == IF i <= 3 THEN PathA ELSE PathB
        IN  [id |-> <<path, IF i <= 3 THEN i - 1 ELSE i - 4>>,
             text |-> kinds[i].text,
             path |-> path,
             title |-> basename(path),
             embedding |-> kinds[i].embedding,
             mtime |-> 1]]

SearchStores ==
    {StoreOf(k) : k \in UNION {[1..n -> SmallKinds] : n \in 0..MaxSmallStore}}
      \cup
    {StoreOf(k) :
        k \in UNION {[1..n -> LongKinds] : n \in (MaxSmallStore + 1)..MaxStore}}

SearchInit ==
    /\ db \in SearchStores
    /\ em = LoadedManager(BgeSmall)
    /\ loading = 0
    /\ ret = NoCall
    /\ NoPlugin

\* searchSimilar(query, embeddingManager, limit, useReranking): nothing is
\* embedded when the store is empty; an error inside is caught and [] is
\* returned. One call is observed per behaviour: a search changes nothing
\* that a later search reads.
CallSearchSimilar ==
    \E query \in SearchQueries, limit \in SearchLimits,
       useReranking \in BOOLEAN, outcome \in EmbedOutcomes :
        /\ ret = NoCall
        /\ outcome = "loadFails" => ~em.embeddingModel
        /\ db = <<>> => outcome = "ok"
        /\ LET queryEmbedding == embed(em, query, outcome)
               results ==
                   IF size(db) = 0 THEN <<>>
                   ELSE IF queryEmbedding.threw THEN <<>>
                   ELSE searchSimilar(db, query, queryEmbedding.data, limit,
                                      useReranking)
           IN  ret' = [op |-> "searchSimilar", query |-> query,
                       limit |-> limit, useReranking |-> useReranking,
                       queryEmbedding |-> IF size(db) = 0 THEN Undefined
                                          ELSE queryEmbedding.data,
                       results |-> results]
        /\ em' = IF size(db) = 0 THEN em
                 ELSE loadModelIfNeeded(em, outcome = "loadFails")
        /\ db' = IF size(db) = 0 \/ embed(em, query, outcome).threw THEN db
                 ELSE storeAfterSearch(db, query, embed(em, query, outcome).data)
        /\ UNCHANGED <<loading, pluginVars>>

\* the limit SemanticSearchModal.performSearch searches with
PerformSearchLimit == 5

\* SemanticSearchModal.performSearch(query): an empty or blank query gets a
\* Notice and no search; otherwise searchSimilar is called with limit 5 and
\* the reranking setting, and its results are kept in lastResults.
CallPerformSearch ==
    \E query \in SearchQueries, useReranking \in BOOLEAN :
        /\ ret = NoCall
        /\ LET searched == Len(trim(query)) # 0
               queryEmbedding == embed(em, query, "ok")
               results ==
                   IF ~searched \/ size(db) = 0 THEN <<>>
                   ELSE searchSimilar(db, query, queryEmbedding.data,
                                      PerformSearchLimit, useReranking)
           IN  ret' = [op |-> "performSearch", query |-> query,
                       searched |-> searched, results |-> results]
        /\ em' = IF Len(trim(query)) = 0 \/ size(db) = 0 THEN em
                 ELSE loadModelIfNeeded(em, FALSE)
        /\ db' = IF Len(trim(query)) = 0 \/ size(db) = 0 THEN db
                 ELSE storeAfterSearch(db, query, embed(em, query, "ok").data)
        /\ UNCHANGED <<loading, pluginVars>>

SearchNext == CallSearchSimilar \/ CallPerformSearch

SpecSearch == SearchInit /\ [][SearchNext]_vars

----------------------------------------------------------------------------
(* SpecEmbed: the embedding manager under embed and loadModel calls        *)

TextHeading == <<"#", SP, "a", "b", "c">>

TextCode == <<BT, "a", BT>>

TextBlank == <<SP>>

EmbedTexts == {TextFox, TextHeading, TextCode, TextBlank}

\* the largest number of loadModel calls in flight at once
MaxLoading == 1

EmbedInit ==
    /\ db = <<>>
    /\ em \in {NewManager(modelName) : modelName \in EmbeddingModels}
    /\ loading = 0
    /\ ret = NoCall
    /\ NoPlugin

\* the embedding model dropdown's onChange calls loadModel(value)
LoadModelStart ==
    \E modelName \in EmbeddingModels :
        /\ loading < MaxLoading
        /\ em' = loadModelStart(em, modelName)
        /\ loading' = loading + 1
        /\ UNCHANGED <<db, ret, pluginVars>>

LoadModelEnd ==
    \E loadFails \in BOOLEAN :
        /\ loading > 0
        /\ em' = loadModelEnd(em, loadFails)
        /\ loading' = loading - 1
        /\ UNCHANGED <<db, ret, pluginVars>>

\* embed(text), from its call to the settling of its promise
CallEmbed ==
    \E text \in EmbedTexts, outcome \in EmbedOutcomes :
        /\ outcome = "loadFails" => ~em.embeddingModel
        /\ LET result == embed(em, text, outcome)
           IN  ret' = [op |-> "embed", text |-> text, outcome |-> outcome,
                       model |-> em.embeddingModelName,
                       threw |-> result.threw, fallback |-> result.fallback,
                       data |-> result.data]
        /\ em' = loadModelIfNeeded(em, outcome = "loadFails")
        /\ UNCHANGED <<db, loading, pluginVars>>

EmbedNext == LoadModelStart \/ LoadModelEnd \/ CallEmbed

SpecEmbed == EmbedInit /\ [][EmbedNext]_vars

----------------------------------------------------------------------------
(* Spec: the plugin's life cycle. The vault's TFile objects are numbered   *)
(* in the order of their creation; an indexFile run holds the number of    *)
(* its TFile and reads the path from the object when it needs it, as a     *)
(* rename changes the path of the object the run holds.                    *)

\* a note without a heading: one chunk
DocOne == <<"a", "b", "c", SP, "d", "e", "f">>

\* a note with a heading after its first line: two chunks
DocTwo == <<"x", NL, "#", SP, "a">>

VaultTexts == {DocOne, DocTwo}

\* the models the dropdown is set to in Spec
SettingsModels == {UAELarge, BgeSmall}

\* the largest value of the clock: each vault event, each onload and each
\* change of a setting advances it by one
MaxNow == 4

\* the provider outcomes of an embed call of indexFile in Spec
IndexOutcomes == {"ok"}

\* the largest number of indexFile runs in flight at once
MaxRuns == 2

TFile(path, content, mtime) ==
    [path |-> path, content |-> content, mtime |-> mtime, deleted |-> FALSE]

\* the TFile objects that are in the vault
liveFiles(v) == {f \in 1..Len(v) : ~v[f].deleted}

\* vault.getMarkdownFiles()
getMarkdownFiles(v) ==
    SelectSeq([f \in 1..Len(v) |-> f], LAMBDA f : ~v[f].deleted)

\* indexFile(file) up to its `await this.app.vault.read(file)`
startIndexFile(f, full) ==
    [file |-> f, pc |-> "read", chunks |-> <<>>, i |-> 0, full |-> full]

\* the first index from i on whose chunk passes `chunkText.trim().length > 0`
RECURSIVE nextChunk(_, _)
nextChunk(chunks, i) ==
    IF i >= Len(chunks) \/ Len(trim(chunks[i + 1])) > 0 THEN Min(i, Len(chunks))
    ELSE nextChunk(chunks, i + 1)

\* the runs and the rest of indexExistingNotes' file list once run k has
\* returned: the loop of indexExistingNotes goes on to its next file
endRun(rs, k, pend) ==
    LET rest == SubSeq(rs, 1, k - 1) \o SubSeq(rs, k + 1, Len(rs))
    IN  IF rs[k].full /\ pend # <<>>
        THEN [runs |-> Append(rest, startIndexFile(Head(pend), TRUE)),
              pending |-> Tail(pend)]
        ELSE [runs |-> rest, pending |-> pend]

\* the chunk loop of an indexFile that gives up at the first embed that
\* did not get the provider's vector
RECURSIVE indexChunksAborting(_, _, _, _, _, _)
indexChunksAborting(d, m, file, chunks, i, outcomes) ==
    IF i >= Len(chunks) THEN d
    ELSE IF Len(trim(chunks[i + 1])) = 0
    THEN indexChunksAborting(d, m, file, chunks, i + 1, outcomes)
    ELSE LET embedding == embed(m, chunks[i + 1], outcomes[i + 1])
         IN  IF embedding.threw \/ outcomes[i + 1] # "ok" THEN d
             ELSE indexChunksAborting(
                      addChunk(d, [id |-> <<file.path, i>>,
                                   text |-> chunks[i + 1],
                                   path |-> file.path,
                                   title |-> basename(file.path),
                                   embedding |-> embedding.data,
                                   mtime |-> file.mtime]),
                      m, file, chunks, i + 1, outcomes)

\* The loop of indexFile from chunk index i on, with the model loaded: no
\* await of it waits for a timer or for I/O then, so no other callback runs
\* before the loop ends. outcomes[j] is the provider's outcome for the
\* j-th chunk.
RECURSIVE indexChunks(_, _, _, _, _, _)
indexChunks(d, m, file, chunks, i, outcomes) ==
    IF i >= Len(chunks) THEN d
    ELSE IF Len(trim(chunks[i + 1])) = 0
    THEN indexChunks(d, m, file, chunks, i + 1, outcomes)
    ELSE LET embedding == embed(m, chunks[i + 1], outcomes[i + 1])
         IN  indexChunks(IF embedding.threw THEN d
                         ELSE addChunk(d, [id |-> <<file.path, i>>,
                                           text |-> chunks[i + 1],
                                           path |-> file.path,
                                           title |-> basename(file.path),
                                           embedding |-> embedding.data,
                                           mtime |-> file.mtime]),
                         m, file, chunks, i + 1, outcomes)

\* indexExistingNotes() up to its first await
indexExistingNotes(v, rs) ==
    LET markdownFiles == getMarkdownFiles(v)
    IN  IF Len(markdownFiles) = 0 THEN [runs |-> rs, pending |-> <<>>]
        ELSE [runs |-> Append(rs, startIndexFile(Head(markdownFiles), TRUE)),
              pending |-> Tail(markdownFiles)]

\* an indexExistingNotes is in flight
fullIndexRunning == \E k \in 1..Len(runs) : runs[k].full

Init ==
    /\ db = <<>>
    /\ em = Undefined
    /\ loading = 0
    /\ ret = NoCall
    /\ vault \in {<<>>, <<TFile(PathA, DocOne, 1)>>}
    /\ disk = Null
    /\ settings = DefaultSettings
    /\ phase = "unloaded"
    /\ loadedEmbeddings = FALSE
    /\ autoSave = FALSE
    /\ runs = <<>>
    /\ pending = <<>>
    /\ now = 1
    /\ writes = <<>>
    /\ rag = NoRAGService

\* onload(): loadSettings, initializeComponents, loadEmbeddingsFromDisk,
\* the auto-save interval. The load of initialize() does not fail: its try
\* block holds a Notice and a timer.
OnLoad ==
    /\ phase = "unloaded"
    /\ now < MaxNow
    /\ now' = now + 1
    /\ LET s == loadSettings(disk)
           m == loadModelIfNeeded(NewManager(s.embeddingModel), FALSE)
           res == IF s.usePersistentStorage
                  THEN loadEmbeddingsFromDisk(disk, m, <<>>, now')
                  ELSE [loaded |-> FALSE, db |-> <<>>]
       IN  /\ settings' = s
           /\ em' = m
           /\ db' = res.db
           /\ loadedEmbeddings' = res.loaded
           /\ autoSave' = s.usePersistentStorage
           /\ ret' = [op |-> "onload",
                      savedData |-> disk,
                      modelName |-> m.embeddingModelName,
                      usePersistentStorage |-> s.usePersistentStorage,
                      loadedEmbeddings |-> res.loaded]
    /\ rag' = NewRAGService(loadSettings(disk))
    /\ phase' = "loaded"
    /\ UNCHANGED <<writes, loading, vault, disk, runs, pending>>

\* the onLayoutReady callback: registerFileEvents, and indexExistingNotes
\* if nothing was loaded
LayoutReady ==
    /\ phase = "loaded"
    /\ phase' = "ready"
    /\ LET started == IF loadedEmbeddings THEN [runs |-> runs, pending |-> pending]
                      ELSE indexExistingNotes(vault, runs)
       IN  runs' = started.runs /\ pending' = started.pending
    /\ UNCHANGED <<rag, writes, db, em, loading, ret, vault, disk, settings,
                   loadedEmbeddings, autoSave, now>>

\* onunload(): the snapshot is saved if persistent storage is on; the
\* plugin object is dropped, and the next onload works on a new one
Unload ==
    /\ phase # "unloaded"
    /\ disk' = IF settings.usePersistentStorage
               THEN saveEmbeddingsToDisk(db, em, disk, now) ELSE disk
    /\ ret' = [op |-> "onunload", store |-> db,
               modelName |-> em.embeddingModelName,
               usePersistentStorage |-> settings.usePersistentStorage]
    /\ phase' = "unloaded"
    /\ db' = <<>>
    /\ em' = Undefined
    /\ loading' = 0
    /\ settings' = DefaultSettings
    /\ loadedEmbeddings' = FALSE
    /\ autoSave' = FALSE
    /\ runs' = <<>>
    /\ pending' = <<>>
    /\ rag' = NoRAGService
    /\ UNCHANGED <<writes, vault, now>>

\* the interval registered by onload fires
TimerSave ==
    /\ phase # "unloaded"
    /\ autoSave
    /\ disk' = saveEmbeddingsToDisk(db, em, disk, now)
    /\ UNCHANGED <<rag, writes, db, em, loading, ret, vault, settings, phase,
                   loadedEmbeddings, autoSave, runs, pending, now>>

\* the embedding model dropdown's onChange: the setting is saved and
\* loadModel(value) runs to its await; nothing is done to the store
ChangeEmbeddingModel ==
    \E value \in SettingsModels :
        /\ phase = "ready"
        /\ value # settings.embeddingModel
        /\ loading < MaxLoading
        /\ now < MaxNow
        /\ now' = now + 1
        /\ settings' = [settings EXCEPT !.embeddingModel = value]
        /\ disk' = saveSettings(settings')
        /\ em' = loadModelStart(em, value)
        /\ loading' = loading + 1
        /\ UNCHANGED <<rag, writes, db, ret, vault, phase, loadedEmbeddings, autoSave,
                       runs, pending>>

\* the persistent storage toggle's onChange: the setting is saved, and the
\* snapshot after it when the toggle was switched on
TogglePersistentStorage ==
    /\ phase = "ready"
    /\ now < MaxNow
    /\ now' = now + 1
    /\ settings' = [settings EXCEPT !.usePersistentStorage = ~@]
    /\ disk' = IF settings'.usePersistentStorage
               THEN saveEmbeddingsToDisk(db, em, saveSettings(settings'), now')
               ELSE saveSettings(settings')
    /\ UNCHANGED <<rag, writes, db, em, loading, ret, vault, phase, loadedEmbeddings,
                   autoSave, runs, pending>>

\* the "Re-index All Notes" button. One indexExistingNotes is in flight at
\* a time in Spec.
ReindexAll ==
    /\ phase = "ready"
    /\ ~fullIndexRunning
    /\ Len(runs) < MaxRuns
    /\ LET started == indexExistingNotes(vault, runs)
       IN  runs' = started.runs /\ pending' = started.pending
    /\ UNCHANGED <<rag, writes, db, em, loading, ret, vault, disk, settings, phase,
                   loadedEmbeddings, autoSave, now>>

\* A file is created; the 'create' handler, once registered, calls
\* indexFile(file).
Create ==
    \E path \in Paths, content \in VaultTexts :
        /\ now < MaxNow
        /\ \A f \in liveFiles(vault) : vault[f].path # path
        /\ phase = "ready" => Len(runs) < MaxRuns
        /\ now' = now + 1
        /\ vault' = Append(vault, TFile(path, content, now'))
        /\ runs' = IF phase = "ready"
                   THEN Append(runs, startIndexFile(Len(vault'), FALSE))
                   ELSE runs
        /\ UNCHANGED <<rag, writes, db, em, loading, ret, disk, settings, phase,
                       loadedEmbeddings, autoSave, pending>>

\* A file is modified; the 'modify' handler calls indexFile(file).
Modify ==
    \E f \in liveFiles(vault), content \in VaultTexts :
        /\ now < MaxNow
        /\ content # vault[f].content
        /\ phase = "ready" => Len(runs) < MaxRuns
        /\ now' = now + 1
        /\ vault' = [vault EXCEPT ![f].content = content, ![f].mtime = now']
        /\ runs' = IF phase = "ready"
                   THEN Append(runs, startIndexFile(f, FALSE))
                   ELSE runs
        /\ UNCHANGED <<rag, writes, db, em, loading, ret, disk, settings, phase,
                       loadedEmbeddings, autoSave, pending>>

\* A file is deleted; the 'delete' handler calls removeFile(file.path).
Delete ==
    \E f \in liveFiles(vault) :
        /\ now < MaxNow
        /\ now' = now + 1
        /\ vault' = [vault EXCEPT ![f].deleted = TRUE]
        /\ db' = IF phase = "ready" THEN removeFile(db, vault[f].path) ELSE db
        /\ UNCHANGED <<rag, writes, em, loading, ret, disk, settings, phase,
                       loadedEmbeddings, autoSave, runs, pending>>

\* A file is renamed: its TFile gets the new path; the 'rename' handler
\* calls removeFile(oldPath) and indexFile(file).
\* a rename handler that keeps the chunks of the file and sets their path
RenameInPlace ==
    \E f \in liveFiles(vault), path \in Paths :
        /\ now < MaxNow
        /\ \A g \in liveFiles(vault) : vault[g].path # path
        /\ phase = "ready" => Len(runs) < MaxRuns
        /\ now' = now + 1
        /\ vault' = [vault EXCEPT ![f].path = path]
        /\ db' = IF phase = "ready"
                 THEN [k \in 1..Len(db) |->
                          IF db[k].path = vault[f].path
                          THEN [db[k] EXCEPT !.path = path] ELSE db[k]]
                 ELSE db
        /\ UNCHANGED <<rag, writes, em, loading, ret, disk, settings, phase,
                       loadedEmbeddings, autoSave, runs, pending>>

Rename ==
    \E f \in liveFiles(vault), path \in Paths :
        /\ now < MaxNow
        /\ \A g \in liveFiles(vault) : vault[g].path # path
        /\ phase = "ready" => Len(runs) < MaxRuns
        /\ now' = now + 1
        /\ vault' = [vault EXCEPT ![f].path = path]
        /\ db' = IF phase = "ready" THEN removeFile(db, vault[f].path) ELSE db
        /\ runs' = IF phase = "ready"
                   THEN Append(runs, startIndexFile(f, FALSE))
                   ELSE runs
        /\ UNCHANGED <<rag, writes, em, loading, ret, disk, settings, phase,
                       loadedEmbeddings, autoSave, pending>>

\* indexFile after `await this.app.vault.read(file)`: the read of a deleted
\* file rejects and the run returns; otherwise the content is chunked and
\* the file's chunks are removed. With the model loaded the chunks are
\* embedded and added at once; without it the first embed waits for the
\* timer of loadModelIfNeeded.
ReadDone ==
    \E k \in 1..Len(runs) :
        /\ runs[k].pc = "read"
        /\ LET file == vault[runs[k].file]
               chunks == chunkMarkdownContent(file.content)
               first == nextChunk(chunks, 0)
           IN  IF file.deleted
               THEN /\ db' = db
                    /\ runs' = endRun(runs, k, pending).runs
                    /\ pending' = endRun(runs, k, pending).pending
               ELSE IF first < Len(chunks) /\ ~em.embeddingModel
               THEN /\ db' = removeFile(db, file.path)
                    /\ runs' = [runs EXCEPT ![k] = [@ EXCEPT !.pc = "embed",
                                                             !.chunks = chunks,
                                                             !.i = first]]
                    /\ pending' = pending
               ELSE \E outcomes \in [1..Len(chunks) -> IndexOutcomes] :
                    /\ db' = indexChunks(removeFile(db, file.path), em, file,
                                         chunks, 0, outcomes)
                    /\ runs' = endRun(runs, k, pending).runs
                    /\ pending' = endRun(runs, k, pending).pending
        /\ UNCHANGED <<rag, writes, em, loading, ret, vault, disk, settings, phase,
                       loadedEmbeddings, autoSave, now>>

\* indexFile after the timer of the loadModelIfNeeded its embed waited for:
\* the model is there, and the chunks from the awaited one on are embedded
\* and added under the path the TFile has now
EmbedDone ==
    \E k \in 1..Len(runs) :
        /\ runs[k].pc = "embed"
        /\ em' = loadModelIfNeeded(em, FALSE)
        /\ \E outcomes \in [1..Len(runs[k].chunks) -> IndexOutcomes] :
               db' = indexChunks(db, em', vault[runs[k].file], runs[k].chunks,
                                 runs[k].i, outcomes)
        /\ runs' = endRun(runs, k, pending).runs
        /\ pending' = endRun(runs, k, pending).pending
        /\ UNCHANGED <<rag, writes, loading, ret, vault, disk, settings, phase,
                       loadedEmbeddings, autoSave, now>>

\* loadModel after its await, in the plugin
ModelLoaded ==
    /\ phase # "unloaded"
    /\ LoadModelEnd

Next ==
    \/ OnLoad
    \/ LayoutReady
    \/ Unload
    \/ TimerSave
    \/ ChangeEmbeddingModel
    \/ TogglePersistentStorage
    \/ ReindexAll
    \/ Create
    \/ Modify
    \/ Delete
    \/ Rename
    \/ ReadDone
    \/ EmbedDone
    \/ ModelLoaded

Spec == Init /\ [][Next]_vars

-----------------------------------------------------------------------------
(* SpecSave: the writes of data.json. Plugin.saveData returns a promise     *)
(* that resolves when the write has landed; `writes` holds the calls whose *)
(* promise is pending. The plugin is loaded and its layout is ready.       *)

\* the largest number of saveData calls in flight at once
MaxWrites == 2

\* the largest store at the start
MaxSaveStore == 2

\* saveEmbeddingsToDisk up to its `await this.saveData(embeddingData)`:
\* the pending writes after the call
startSaveEmbeddingsToDisk(d, m, ws, t) ==
    IF size(d) = 0 THEN ws
    ELSE Append(ws, [by |-> "saveEmbeddingsToDisk",
                     data |-> saveEmbeddingsToDisk(d, m, Null, t),
                     andThen |-> "return"])

\* the snapshot writes among the pending ones
snapshotWrites(ws) ==
    {k \in 1..Len(ws) : ws[k].by = "saveEmbeddingsToDisk"}

SaveInit ==
    /\ \E kinds \in UNION {[1..n -> LongKinds] : n \in 0..MaxSaveStore} :
           db = StoreOf(kinds)
    /\ em = LoadedManager(BgeSmall)
    /\ loading = 0
    /\ ret = NoCall
    /\ vault = <<>>
    /\ disk = Null
    /\ \E usePersistentStorage \in BOOLEAN :
           /\ settings = [DefaultSettings EXCEPT
                              !.embeddingModel = BgeSmall,
                              !.usePersistentStorage = usePersistentStorage]
           /\ autoSave = usePersistentStorage
    /\ phase = "ready"
    /\ loadedEmbeddings = FALSE
    /\ runs = <<>>
    /\ pending = <<>>
    /\ now = 1
    /\ writes = <<>>
    /\ rag = NoRAGService

\* the 10-minute interval fires: `() => this.saveEmbeddingsToDisk()`
TimerFires ==
    /\ phase = "ready"
    /\ autoSave
    /\ now < MaxNow
    /\ Len(writes) < MaxWrites
    /\ now' = now + 1
    /\ writes' = startSaveEmbeddingsToDisk(db, em, writes, now')
    /\ ret' = [op |-> "timer", inFlight |-> snapshotWrites(writes) # {}]
    /\ UNCHANGED <<rag, db, em, loading, vault, disk, settings, phase,
                   loadedEmbeddings, autoSave, runs, pending>>

\* the persistent-storage toggle up to its `await saveSettings()`
ToggleStarts ==
    /\ phase = "ready"
    /\ now < MaxNow
    /\ Len(writes) < MaxWrites
    /\ now' = now + 1
    /\ settings' = [settings EXCEPT !.usePersistentStorage = ~@]
    /\ writes' = Append(writes,
                        [by |-> "saveSettings",
                         data |-> saveSettings(settings'),
                         andThen |-> IF settings'.usePersistentStorage
                                     THEN "saveEmbeddingsToDisk"
                                     ELSE "return"])
    /\ ret' = [op |-> "toggle", inFlight |-> snapshotWrites(writes) # {}]
    /\ UNCHANGED <<rag, db, em, loading, vault, disk, phase, loadedEmbeddings,
                   autoSave, runs, pending>>

\* onunload: the save is started and not awaited; the interval is cleared
UnloadStarts ==
    /\ phase = "ready"
    /\ Len(writes) < MaxWrites
    /\ writes' = IF settings.usePersistentStorage
                 THEN startSaveEmbeddingsToDisk(db, em, writes, now)
                 ELSE writes
    /\ ret' = [op |-> "onunload", inFlight |-> snapshotWrites(writes) # {}]
    /\ phase' = "unloaded"
    /\ autoSave' = FALSE
    /\ UNCHANGED <<rag, db, em, loading, vault, disk, settings, loadedEmbeddings,
                   runs, pending, now>>

\* a pending write lands, in whatever order the file system takes them, and
\* the code after its await runs
WriteLands ==
    \E k \in 1..Len(writes) :
        LET rest == [i \in 1..(Len(writes) - 1) |->
                        IF i < k THEN writes[i] ELSE writes[i + 1]]
        IN  /\ disk' = writes[k].data
            /\ writes' = IF writes[k].andThen = "saveEmbeddingsToDisk"
                         THEN startSaveEmbeddingsToDisk(db, em, rest, now)
                         ELSE rest
            /\ ret' = [op |-> "written", by |-> writes[k].by]
            /\ UNCHANGED <<rag, db, em, loading, vault, settings, phase,
                           loadedEmbeddings, autoSave, runs, pending, now>>

\* a file is deleted between two saves
FileRemoved ==
    \E path \in Paths :
        /\ phase = "ready"
        /\ removeFileCount(db, path) > 0
        /\ db' = removeFile(db, path)
        /\ ret' = [op |-> "removeFile", path |-> path]
        /\ UNCHANGED <<em, loading, pluginVars>>

SaveNext ==
    \/ TimerFires
    \/ ToggleStarts
    \/ UnloadStarts
    \/ WriteLands
    \/ FileRemoved

SpecSave == SaveInit /\ [][SaveNext]_vars

-----------------------------------------------------------------------------
(* SpecIndex: indexFile runs over a loaded model, each from its            *)
(* `await vault.read` to its end, under every outcome of the provider      *)

\* a note with two headings after its first line: three chunks
DocThree == <<"x", NL, "#", SP, "a", NL, "#", SP, "b">>

IndexTexts == {DocOne, DocTwo, DocThree}

\* what the provider does in an embed call of indexFile in SpecIndex
ProviderOutcomes == {"ok", "providerFails"}

IndexInit ==
    /\ db = <<>>
    /\ em = LoadedManager(BgeSmall)
    /\ loading = 0
    /\ ret = NoCall
    /\ NoPlugin

CallIndexFile ==
    \E path \in Paths, content \in IndexTexts :
        LET file == TFile(path, content, 1)
            chunks == chunkMarkdownContent(content)
        IN  \E outcomes \in [1..Len(chunks) -> ProviderOutcomes] :
                /\ db' = indexChunks(removeFile(db, file.path), em, file,
                                     chunks, 0, outcomes)
                /\ ret' = [op |-> "indexFile", file |-> file,
                           chunks |-> chunks, outcomes |-> outcomes]
                /\ UNCHANGED <<em, loading, pluginVars>>

IndexNext == CallIndexFile

SpecIndex == IndexInit /\ [][IndexNext]_vars

-----------------------------------------------------------------------------
(* SpecChunk: the chunker over every short text. The two sizes of          *)
(* chunkMarkdownContent are scaled down in their order (overlap below size) *)
(* so that texts of a few characters go through the size pass.             *)

\* the characters of the texts: two letters, a space, a line feed, a hash
TextChars == {"a", "b", SP, NL, "#"}

\* the longest text
MaxTextLen == 6

\* maxChunkSize and chunkOverlap, scaled down
SmallChunkSize == 3

SmallOverlap == 1

ChunkTexts == UNION {[1..n -> TextChars] : n \in 0..MaxTextLen}

ChunkInit ==
    /\ db = <<>>
    /\ em = LoadedManager(BgeSmall)
    /\ loading = 0
    /\ ret = NoCall
    /\ NoPlugin

CallChunkMarkdownContent ==
    /\ ret = NoCall
    /\ \E markdownContent \in ChunkTexts :
           ret' = [op |-> "chunkMarkdownContent",
                   text |-> markdownContent,
                   chunks |-> chunkMarkdown(markdownContent, SmallChunkSize,
                                            SmallOverlap)]
    /\ UNCHANGED <<db, em, loading, pluginVars>>

CallRecursivelyChunkText ==
    /\ ret = NoCall
    /\ \E text \in ChunkTexts :
           ret' = [op |-> "recursivelyChunkText",
                   text |-> text,
                   chunks |-> recursivelyChunkText(text, SmallChunkSize,
                                                   SmallOverlap)]
    /\ UNCHANGED <<db, em, loading, pluginVars>>

ChunkNext == CallChunkMarkdownContent \/ CallRecursivelyChunkText

SpecChunk == ChunkInit /\ [][ChunkNext]_vars

-----------------------------------------------------------------------------
(* SpecRag: RAGService.answerQuestion under changes of the API key and of  *)
(* the LLM model                                                           *)

\* ensureOpenRouter: the client is made when there is none and the key is
\* set; a client that exists stays
ensureOpenRouter(r, s) ==
    IF ~r.openRouter /\ s.openRouterApiKey # "" THEN NewRAGService(s) ELSE r

\* formatContextFromNotes: the notes, numbered from 1, with title and text
formatContextFromNotes(notes) ==
    [i \in 1..Len(notes) |->
        [index |-> i, title |-> notes[i].title, text |-> notes[i].text]]

\* createPrompt: the template with its two holes filled
createPrompt(question, context) == [context |-> context, question |-> question]

\* callOpenRouter: it throws when the key or the model is not set, and
\* gives the simulated response otherwise, which names the question it was
\* asked and the model
callOpenRouter(s, prompt) ==
    IF s.openRouterApiKey = ""
    THEN [threw |-> TRUE, message |-> "OpenRouter API key not configured"]
    ELSE IF s.llmModel = ""
    THEN [threw |-> TRUE, message |-> "LLM model not selected"]
    ELSE [threw |-> FALSE,
          value |-> <<"Based on the available notes, ", prompt.question,
                      "(Response generated using simulated ", s.llmModel, ")">>]

\* the answer of the catch block: `Error: ${error.message}`
errorAnswer(message) ==
    [answer |-> <<"Error: ", message>>, sources |-> <<>>,
     shouldShowSources |-> FALSE]

NoRelevantAnswer ==
    [answer |-> <<"I couldn't find any relevant information in your notes to answer this question.">>,
     sources |-> <<>>,
     shouldShowSources |-> FALSE]

\* an answerQuestion without the catch block: the exception of the
\* completion call leaves the function
answerQuestionRethrowing(r, s, d, m, question) ==
    LET r2 == ensureOpenRouter(r, s)
        notes == searchSimilar(d, question, embed(m, question, "ok").data,
                               s.contextLength, s.useReranking)
        answer == callOpenRouter(s, createPrompt(question,
                                     formatContextFromNotes(notes)))
    IN  IF ~r2.openRouter
        THEN [result |-> errorAnswer("OpenRouter API key not configured"),
              threw |-> FALSE, completionCalls |-> 0, rag |-> r2]
        ELSE IF Len(notes) = 0
        THEN [result |-> NoRelevantAnswer,
              threw |-> FALSE, completionCalls |-> 0, rag |-> r2]
        ELSE IF answer.threw
        THEN [result |-> Undefined,
              threw |-> TRUE, completionCalls |-> 1, rag |-> r2]
        ELSE [result |-> [answer |-> answer.value, sources |-> notes,
                          shouldShowSources |-> TRUE],
              threw |-> FALSE, completionCalls |-> 1, rag |-> r2]

\* answerQuestion: what its promise settles with (result, or threw), the
\* number of callOpenRouter calls it made, and the service afterwards
answerQuestion(r, s, d, m, question) ==
    LET r2 == ensureOpenRouter(r, s)
        notes == searchSimilar(d, question, embed(m, question, "ok").data,
                               s.contextLength, s.useReranking)
        answer == callOpenRouter(s, createPrompt(question,
                                     formatContextFromNotes(notes)))
    IN  IF ~r2.openRouter
        THEN [result |-> errorAnswer("OpenRouter API key not configured"),
              threw |-> FALSE, completionCalls |-> 0, rag |-> r2]
        ELSE IF Len(notes) = 0
        THEN [result |-> NoRelevantAnswer,
              threw |-> FALSE, completionCalls |-> 0, rag |-> r2]
        ELSE IF answer.threw
        THEN [result |-> errorAnswer(answer.message),
              threw |-> FALSE, completionCalls |-> 1, rag |-> r2]
        ELSE [result |-> [answer |-> answer.value, sources |-> notes,
                          shouldShowSources |-> TRUE],
              threw |-> FALSE, completionCalls |-> 1, rag |-> r2]

\* the keys the API key field is set to
ApiKeys == {"", "sk-or-key"}

\* the models the LLM dropdown is set to
LlmModels == {DefaultLlmModel, "deepseek/deepseek-r1:free"}

\* the values the context length slider is set to
ContextLengths == {1, 5}

Questions == {QueryFox, QueryRev}

\* the largest store of SpecRag
MaxRagStore == 2

RagInit ==
    /\ \E kinds \in UNION {[1..n -> LongKinds] : n \in 0..MaxRagStore} :
           db = StoreOf(kinds)
    /\ em = LoadedManager(BgeSmall)
    /\ loading = 0
    /\ ret = NoCall
    /\ vault = <<>>
    /\ disk = Null
    /\ \E key \in ApiKeys, contextLength \in ContextLengths :
           settings = [DefaultSettings EXCEPT
                          !.embeddingModel = BgeSmall,
                          !.openRouterApiKey = key,
                          !.contextLength = contextLength]
    /\ rag = NewRAGService(settings)
    /\ phase = "ready"
    /\ loadedEmbeddings = FALSE
    /\ autoSave = TRUE
    /\ runs = <<>>
    /\ pending = <<>>
    /\ now = 1
    /\ writes = <<>>

\* the API key field's onChange
SetOpenRouterApiKey ==
    \E value \in ApiKeys :
        /\ value # settings.openRouterApiKey
        /\ settings' = [settings EXCEPT !.openRouterApiKey = value]
        /\ disk' = saveSettings(settings')
        /\ UNCHANGED <<db, em, loading, ret, vault, phase, loadedEmbeddings,
                       autoSave, runs, pending, now, writes, rag>>

\* the LLM model dropdown's onChange
SetLlmModel ==
    \E value \in LlmModels :
        /\ value # settings.llmModel
        /\ settings' = [settings EXCEPT !.llmModel = value]
        /\ disk' = saveSettings(settings')
        /\ UNCHANGED <<db, em, loading, ret, vault, phase, loadedEmbeddings,
                       autoSave, runs, pending, now, writes, rag>>

\* the re-ranking toggle's onChange
SetUseReranking ==
    /\ settings' = [settings EXCEPT !.useReranking = ~@]
    /\ disk' = saveSettings(settings')
    /\ UNCHANGED <<db, em, loading, ret, vault, phase, loadedEmbeddings,
                   autoSave, runs, pending, now, writes, rag>>

CallAnswerQuestion ==
    \E question \in Questions :
        LET a == answerQuestion(rag, settings, db, em, question)
        IN  /\ ret' = [op |-> "answerQuestion", question |-> question,
                       rag |-> rag, settings |-> settings,
                       result |-> a.result, threw |-> a.threw,
                       completionCalls |-> a.completionCalls]
            /\ rag' = a.rag
            /\ UNCHANGED <<db, em, loading, vault, disk, settings, phase,
                           loadedEmbeddings, autoSave, runs, pending, now,
                           writes>>

RagNext ==
    \/ SetOpenRouterApiKey
    \/ SetLlmModel
    \/ SetUseReranking
    \/ CallAnswerQuestion

SpecRag == RagInit /\ [][RagNext]_vars

-----------------------------------------------------------------------------
(* SpecLoad: loadEmbeddingsFromDisk over what data.json can hold when the  *)
(* plugin starts, well-formed or not. onload calls it once, on the store   *)
(* initializeComponents has just made.                                     *)

\* the longest chunk list of a snapshot
MaxSavedChunks == 3

\* the elements of a snapshot's chunk list: saved chunks, one of them
\* without an embedding, and JSON null
SavedChunks ==
    {[id |-> <<PathA, 0>>, text |-> TextFox, path |-> PathA, title |-> "a",
      embedding |-> VecP, mtime |-> 1],
     [id |-> <<PathA, 1>>, text |-> TextOther, path |-> PathA, title |-> "a",
      embedding |-> Undefined, mtime |-> 1],
     [id |-> <<PathB, 0>>, text |-> TextOther, path |-> PathB, title |-> "b",
      embedding |-> VecQ, mtime |-> 1],
     Null}

\* what loadData() returns: null, a settings object, or a snapshot
SavedDatas ==
    {Null, saveSettings(DefaultSettings)}
      \cup [version : {1},
            modelName : {BgeSmall, UAELarge},
            chunks : UNION {[1..n -> SavedChunks] : n \in 0..MaxSavedChunks},
            updatedAt : {1}]

LoadInit ==
    /\ db = <<>>
    /\ em = LoadedManager(BgeSmall)
    /\ loading = 0
    /\ ret = NoCall
    /\ NoPlugin

CallLoadEmbeddingsFromDisk ==
    /\ ret = NoCall
    /\ \E savedData \in SavedDatas :
           LET res == loadEmbeddingsFromDisk(savedData, em, db, now)
           IN  /\ db' = res.db
               /\ ret' = [op |-> "loadEmbeddingsFromDisk",
                          savedData |-> savedData, before |-> db,
                          loaded |-> res.loaded]
    /\ UNCHANGED <<em, loading, pluginVars>>

LoadNext == CallLoadEmbeddingsFromDisk

SpecLoad == LoadInit /\ [][LoadNext]_vars

----------------------------------------------------------------------------
(* Claims                                                                  *)

\* C1: a removeFile(p) step deletes exactly the chunks whose path is p and
\* keeps all others, with their contents and in their order; it returns
\* the number of chunks deleted, which is the decrease of size(); and a
\* removeFile(p) that directly follows a removeFile(p) returns 0 and leaves
\* the store as it is.
C1_RemoveFileExact ==
    [][\A p \in Paths :
         (ret'.op = "removeFile" /\ ret'.path = p) =>
            /\ \A i \in 1..Len(db') : db'[i].path # p
            /\ \A i \in 1..Len(db) :
                  db[i].path # p => \E j \in 1..Len(db') : db'[j] = db[i]
            /\ \A j \in 1..Len(db') : \E i \in 1..Len(db) : db[i] = db'[j]
            /\ ret'.removed = Cardinality({i \in 1..Len(db) : db[i].path = p})
            /\ size(db') = size(db) - ret'.removed
            /\ (ret.op = "removeFile" /\ ret.path = p) =>
                  (ret'.removed = 0 /\ db' = db)]_vars

\* C1 witness: a removeFile deleted several chunks of one path and left a
\* chunk of the other path in the store
C1_Witness ==
    /\ ret.op = "removeFile"
    /\ ret.removed >= 2
    /\ db # <<>>

\* the chunk of the store with this id
ChunkById(d, id) == CHOOSE c \in Range(d) : c.id = id

Searched == ret.op = "searchSimilar"

\* the positions of ret.results made from the chunk with this id
PositionsOf(id) == {i \in 1..Len(ret.results) : ret.results[i].id = id}

\* C2: searchSimilar returns at most `limit` results, and the empty sequence
\* when the store is empty (db does not change in SpecSearch: it is the
\* store the call searched).
C2_AtMostLimit ==
    Searched =>
        /\ Len(ret.results) <= ret.limit
        /\ size(db) = 0 => ret.results = <<>>

\* C2 witness: a search cut its result to `limit`, with and after reranking
C2_Witness ==
    /\ Searched
    /\ ret.useReranking
    /\ Len(ret.results) = ret.limit
    /\ Len(SelectSeq(db, HasEmbedding)) > ret.limit

\* the score searchSimilar's sort ranks this chunk by (similarity plus boost)
BoostedScore(id) ==
    LET items == scoredChunks(db, ret.query, ret.queryEmbedding)
    IN  (CHOOSE it \in Range(items) : it.chunk.id = id).score

\* C8: of two stored chunks with the same cosine similarity to the query,
\* one whose text contains the query (case-insensitively) and one that is no
\* lexical match, the first has the strictly higher boosted score, and
\* wherever the second is in the result the first is before it with a
\* strictly higher score, with or without reranking.
C8_LiteralMatchOutranks ==
    Searched =>
        \A i, j \in 1..Len(db) :
            LET c1 == db[i]
                c2 == db[j]
                q == ret.queryEmbedding
            IN  (/\ c1.embedding # Undefined /\ c1.embedding.dim > 0
                 /\ c2.embedding # Undefined /\ c2.embedding.dim > 0
                 /\ cosineSimilarity(q, c1.embedding)
                      = cosineSimilarity(q, c2.embedding)
                 /\ includes(toLowerCase(c1.text), toLowerCase(ret.query))
                 /\ ~exactMatch(ret.query, c2.text))
                =>
                (/\ BoostedScore(c1.id) > BoostedScore(c2.id)
                 /\ \A p2 \in PositionsOf(c2.id) :
                       \E p1 \in PositionsOf(c1.id) :
                          /\ p1 < p2
                          /\ ret.results[p1].score > ret.results[p2].score)

\* C8 witness: a reranked result holds a chunk that contains the query after
\* a chunk that is no lexical match, inserted before it and as similar
C8_Witness ==
    /\ Searched
    /\ ret.useReranking
    /\ \E i, j \in 1..Len(db) :
          /\ j < i
          /\ db[i].embedding = VecP /\ db[j].embedding = VecP
          /\ includes(toLowerCase(db[i].text), toLowerCase(ret.query))
          /\ ~exactMatch(ret.query, db[j].text)
          /\ \E p1 \in PositionsOf(db[i].id), p2 \in PositionsOf(db[j].id) :
                p1 < p2

\* C9 (as claimed): with reranking, searchSimilar returns min(limit, number
\* of scored chunks) results, the highest by combined score of the top
\* 2 * limit boosted candidates.
C9_RerankedCount ==
    (Searched /\ ret.useReranking /\ db # <<>>) =>
        LET scored == scoredChunks(db, ret.query, ret.queryEmbedding)
            pool == formatResults(slice(scored, 2 * ret.limit))
        IN  /\ Len(ret.results) = Min(ret.limit, Len(scored))
            /\ \A i \in 1..Len(pool) :
                  PositionsOf(pool[i].id) = {} =>
                     \A p \in 1..Len(ret.results) :
                        ret.results[p].score
                           >= combinedScore(ret.query, pool[i])

\* C10: no result of searchSimilar is made from a chunk whose embedding is
\* absent or empty.
C10_NoEmbeddingInvisible ==
    Searched =>
        \A p \in 1..Len(ret.results) :
            LET c == ChunkById(db, ret.results[p].id)
            IN  c.embedding # Undefined /\ c.embedding.dim > 0

\* C10 witness: a search with a non-empty result over a store that holds a
\* chunk with an absent and a chunk with an empty embedding, both with a
\* text that contains the query
C10_Witness ==
    /\ Searched
    /\ ret.results # <<>>
    /\ \E i \in 1..Len(db) :
          /\ db[i].embedding = Undefined
          /\ includes(toLowerCase(db[i].text), toLowerCase(ret.query))

Embedded == ret.op = "embed"

\* C6: embed never rejects: whatever the text and whichever of the model
\* load and the provider call fail, it resolves with a vector whose length
\* is the dimension of the model that is active.
C6_EmbedNeverThrows ==
    Embedded =>
        /\ ~ret.threw
        /\ ret.data # Undefined
        /\ VecLength(ret.data) = ModelDimension(ret.model)

\* C6 witness: the provider call failed under a model of dimension 768 and
\* embed resolved
C6_Witness ==
    /\ Embedded
    /\ ret.outcome = "providerFails"
    /\ ret.fallback
    /\ ret.model = BgeBase

\* C7 (as claimed): the vector an embed call falls back to is the
\* deterministic embedding of the original text, and it is the vector the
\* fallback before it gave, if that was for the same text under the same
\* model.
C7_FallbackFromOriginalText ==
    [][(ret'.op = "embed" /\ ret'.fallback) =>
          /\ ret'.data =
                generateDeterministicEmbedding(ModelDimension(ret'.model),
                                               ret'.text)
          /\ (ret.op = "embed" /\ ret.fallback /\ ret.text = ret'.text
                /\ ret.model = ret'.model)
             => ret.data = ret'.data]_vars

\* what the snapshot claims compare of the chunks of a store
ChunkSet(d) ==
    {[id |-> c.id, path |-> c.path, text |-> c.text, embedding |-> c.embedding] :
        c \in Range(d)}

\* C3: an onload step takes the snapshot into the store only if the
\* snapshot's modelName is the name of the active embedding model, and then
\* the store holds the snapshot's chunks; when the names differ nothing is
\* loaded (loadedEmbeddings is false) and no chunk of the snapshot is in the
\* store; and the layout-ready step that follows a start without loaded
\* embeddings starts indexExistingNotes over every note of the vault.
C3_LoadOnlyOnModelMatch ==
    [][/\ (phase = "unloaded" /\ phase' = "loaded") =>
            /\ loadedEmbeddings' =>
                  /\ settings'.usePersistentStorage
                  /\ ~noSavedChunks(disk)
                  /\ disk.modelName = em'.embeddingModelName
                  /\ ChunkSet(db') = ChunkSet(disk.chunks)
            /\ (~noSavedChunks(disk)
                  /\ disk.modelName # em'.embeddingModelName) =>
                  /\ ~loadedEmbeddings'
                  /\ \A c \in Range(disk.chunks) : c \notin Range(db')
                  /\ db' = <<>>
       /\ (phase = "loaded" /\ phase' = "ready" /\ ~loadedEmbeddings) =>
            /\ {runs'[k].file : k \in 1..Len(runs')} \cup Range(pending')
                  = liveFiles(vault)
            /\ \A k \in 1..Len(runs') : runs'[k].full /\ runs'[k].pc = "read"
      ]_vars

\* a start that found a snapshot of another model: nothing was loaded, and
\* after layout-ready the full index is running over an empty store
C3_Witness ==
    /\ phase = "ready"
    /\ ret.op = "onload"
    /\ ret.usePersistentStorage
    /\ ~ret.loadedEmbeddings
    /\ ~noSavedChunks(ret.savedData)
    /\ ret.savedData.modelName # ret.modelName
    /\ db = <<>>
    /\ fullIndexRunning

\* C4: when onunload has called saveEmbeddingsToDisk on the store S and the
\* next onload calls loadEmbeddingsFromDisk under the same active model name,
\* the store after the load holds exactly the chunks of S (ids, paths, texts,
\* embeddings), the empty S included.
C4_SaveLoadRoundTrip ==
    [][(/\ phase = "unloaded" /\ phase' = "loaded"
        /\ ret.op = "onunload" /\ ret.usePersistentStorage
        /\ settings'.usePersistentStorage
        /\ em'.embeddingModelName = ret.modelName)
          => ChunkSet(db') = ChunkSet(ret.store)]_vars

\* C5: in every reachable state all embeddings in the store have the same
\* length.
C5_OneDimension ==
    \A c1, c2 \in Range(db) :
        (c1.embedding # Undefined /\ c2.embedding # Undefined)
            => VecLength(c1.embedding) = VecLength(c2.embedding)

\* the stored chunk has an embedding whose length is not the query vector's
Mismatched(c) ==
    /\ c.embedding # Undefined
    /\ c.embedding.dim > 0
    /\ c.embedding.dim # ret.queryEmbedding.dim

\* the results are in descending order of score
SortedByScore(results) ==
    \A i, j \in 1..Len(results) :
        i < j => results[i].score >= results[j].score

\* the sequence without the results made from a mismatched chunk
WithoutMismatched(results) ==
    SelectSeq(results, LAMBDA r : ~Mismatched(ChunkById(db, r.id)))

\* s is an initial part of t
IsPrefix(s, t) == Len(s) <= Len(t) /\ s = SubSeq(t, 1, Len(s))

\* C11: after a search over a store that holds a chunk whose embedding
\* length differs from the query vector's, that chunk's cosine similarity is
\* 0 (its unreranked score is its lexical boost alone), the search has
\* returned a result for every scored chunk up to the limit, the results are
\* in descending order of score, and without reranking the other chunks
\* are ranked as a search over the store without the mismatched chunks ranks
\* them.
C11_MismatchScoresZero ==
    (Searched /\ \E c \in Range(db) : Mismatched(c)) =>
        LET q == ret.queryEmbedding
            others == SelectSeq(db, LAMBDA c : ~Mismatched(c))
        IN  /\ \A c \in Range(db) :
                  Mismatched(c) =>
                    /\ cosineSimilarity(q, c.embedding) = 0
                    /\ ~ret.useReranking =>
                          \A p \in PositionsOf(c.id) :
                              ret.results[p].score =
                                  IF exactMatch(ret.query, c.text)
                                  THEN BoostFactor ELSE 0
            /\ Len(ret.results) >= 1
            /\ ~ret.useReranking =>
                  /\ Len(ret.results)
                        = Min(ret.limit, Len(SelectSeq(db, HasEmbedding)))
                  /\ IsPrefix(WithoutMismatched(ret.results),
                              searchSimilar(others, ret.query, q, ret.limit,
                                            FALSE))
            /\ SortedByScore(ret.results)
            /\ \A p \in 1..Len(ret.results) :
                  LET c == ChunkById(db, ret.results[p].id)
                      boosted == cosineSimilarity(q, c.embedding)
                                   + (IF exactMatch(ret.query, c.text)
                                      THEN BoostFactor ELSE 0)
                  IN  ret.results[p].score =
                          IF ret.useReranking
                          THEN combinedScore(ret.query,
                                   [text |-> c.text, score |-> boosted])
                          ELSE boosted

\* C11 witness: a result holds a mismatched chunk and, after it, a chunk of
\* the query's dimension with a similarity above 0
C11_Witness ==
    /\ Searched
    /\ \E p1, p2 \in 1..Len(ret.results) :
          /\ p1 # p2
          /\ Mismatched(ChunkById(db, ret.results[p1].id))
          /\ ~Mismatched(ChunkById(db, ret.results[p2].id))
          /\ cosineSimilarity(ret.queryEmbedding,
                              ChunkById(db, ret.results[p2].id).embedding) > 0

\* C12 (as claimed): a searchSimilar with an empty or whitespace-only query
\* returns no results, whatever the store holds.
C12_BlankQueryNoResults ==
    (Searched /\ trim(ret.query) = <<>>) => ret.results = <<>>

\* the chunks the store maps this id to
Lookup(d, id) == {d[i] : i \in {j \in 1..Len(d) : d[j].id = id}}

\* no two chunks of the store share an id
UniqueIds(d) == \A i, j \in 1..Len(d) : d[i].id = d[j].id => i = j

\* C13: no two chunks in the store share an id, in every state; and an
\* addChunk(c) step leaves the store mapping c.id to c and every other id to
\* what it mapped to before, with size() one more exactly when c.id was
\* absent.
C13_AddChunkUpserts ==
    /\ [](UniqueIds(db))
    /\ [][ret'.op = "addChunk" =>
            LET c == ret'.chunk
            IN  /\ Lookup(db', c.id) = {c}
                /\ \A id \in (Paths \X (0..MaxIndex)) \ {c.id} :
                      Lookup(db', id) = Lookup(db, id)
                /\ size(db') = size(db) + (IF Lookup(db, c.id) = {} THEN 1 ELSE 0)
          ]_vars

\* C13 witness: the last addChunk replaced a chunk (the chunk it added is
\* not the last of the store) by one whose path is not the path of its id
C13_Witness ==
    /\ ret.op = "addChunk"
    /\ size(db) >= 2
    /\ db[1] = ret.chunk
    /\ ret.chunk.path # ret.chunk.id[1]

\* C14: two writes of the snapshot never overlap: at no time are two
\* saveData calls of saveEmbeddingsToDisk pending, so that a save started by
\* the timer while another save is in flight starts no write of its own
\* before that save has finished.
C14_SnapshotWritesNeverOverlap == Cardinality(snapshotWrites(writes)) <= 1

\* the chunks of the indexed file that are not blank
NonEmptyChunks == {i \in 0..(Len(ret.chunks) - 1) : Len(trim(ret.chunks[i + 1])) > 0}

\* C15: when the provider fails in the embed of one chunk of an indexFile
\* run, the run goes on: every other non-empty chunk, before and after the
\* failing one, is in the store under path-i with the vector embed gives for
\* it, and the store holds no other chunk of the file.
C15_EmbedFailureDoesNotAbort ==
    (ret.op = "indexFile" /\ \E f \in NonEmptyChunks : ret.outcomes[f + 1] = "providerFails") =>
        /\ \A i \in NonEmptyChunks :
               ret.outcomes[i + 1] = "ok" =>
                   Lookup(db, <<ret.file.path, i>>) =
                       {[id |-> <<ret.file.path, i>>,
                         text |-> ret.chunks[i + 1],
                         path |-> ret.file.path,
                         title |-> basename(ret.file.path),
                         embedding |-> embed(em, ret.chunks[i + 1], "ok").data,
                         mtime |-> ret.file.mtime]}
        /\ \A k \in 1..Len(db) :
               db[k].path = ret.file.path =>
                   /\ db[k].id[1] = ret.file.path
                   /\ db[k].id[2] \in NonEmptyChunks

\* a three-chunk file whose first chunk's embed failed and whose two later
\* chunks are in the store with the provider's vectors, next to another file
C15_Witness ==
    /\ ret.op = "indexFile"
    /\ Len(ret.chunks) = 3
    /\ ret.outcomes = <<"providerFails", "ok", "ok">>
    /\ \A i \in {1, 2} :
           \E k \in 1..Len(db) :
               /\ db[k].id = <<ret.file.path, i>>
               /\ db[k].embedding = embeddingModelData(em.embeddingDimension,
                                        preprocessTextForEmbedding(ret.chunks[i + 1]))
    /\ \E k \in 1..Len(db) : db[k].path # ret.file.path

\* the characters of s that are not whitespace, in their order
NonWhitespace(s) == SelectSeq(s, LAMBDA c : ~IsSpace(c))

\* the concatenation of the strings of a sequence
RECURSIVE Concat(_)
Concat(ss) == IF ss = <<>> THEN <<>> ELSE Head(ss) \o Concat(Tail(ss))

\* the overlap prefix a chunk has when the size pass seeded it from the
\* chunk before it: that chunk's last `overlap` characters and "\n\n"
OverlapSeed(chunks, k, overlap) ==
    SubSeq(chunks[k - 1], Len(chunks[k - 1]) - overlap + 1, Len(chunks[k - 1]))
        \o <<NL, NL>>

\* the chunks that begin with the overlap prefix of the chunk before them
Seeded(chunks, overlap) ==
    {k \in 2..Len(chunks) :
        /\ Len(chunks[k - 1]) > overlap
        /\ IsPrefix(OverlapSeed(chunks, k, overlap), chunks[k])}

\* the chunks, those of S without their overlap prefix
WithoutSeeds(chunks, S, overlap) ==
    [k \in 1..Len(chunks) |->
        IF k \in S THEN SubSeq(chunks[k], overlap + 3, Len(chunks[k]))
        ELSE chunks[k]]

\* C16: chunkMarkdownContent preserves the content: the non-whitespace
\* characters of the text are, in their order, the non-whitespace characters
\* of the concatenation of the chunks, once the overlap prefixes that the
\* size pass put in front of chunks are left out.
C16_ContentPreserved ==
    ret.op = "chunkMarkdownContent" =>
        \E S \in SUBSET Seeded(ret.chunks, SmallOverlap) :
            NonWhitespace(Concat(WithoutSeeds(ret.chunks, S, SmallOverlap)))
                = NonWhitespace(ret.text)

\* a text with a heading section that the size pass splits into a chunk and
\* a second chunk that starts with an overlap prefix
C16_Witness ==
    /\ ret.op = "chunkMarkdownContent"
    /\ Len(ret.chunks) >= 2
    /\ Seeded(ret.chunks, SmallOverlap) # {}
    /\ NonWhitespace(Concat(ret.chunks)) # NonWhitespace(ret.text)

\* the chunk is one paragraph: it has no blank-line break in it
SingleParagraph(chunk) == Len(splitParagraphs(chunk, 0, 0)) = 1

\* C17: every chunk chunkMarkdownContent returns is at most the maximal
\* chunk size long, unless it is a single paragraph longer than that size;
\* this holds for the chunks that were opened with an overlap prefix too.
C17_ChunkSizeBounded ==
    ret.op = "chunkMarkdownContent" =>
        \A k \in 1..Len(ret.chunks) :
            \/ Len(ret.chunks[k]) <= SmallChunkSize
            \/ SingleParagraph(ret.chunks[k])

\* the last `overlap` characters of a chunk, or all of it when it is shorter
TrailingOverlap(chunk, overlap) ==
    SubSeq(chunk, Max(1, Len(chunk) - overlap + 1), Len(chunk))

\* C18: when the size pass closes a chunk, the chunk after it begins with
\* the trailing overlap characters of the closed chunk (with all of the
\* closed chunk when that is shorter than the overlap), and the paragraph
\* that did not fit follows.
C18_NextChunkStartsWithOverlap ==
    ret.op = "recursivelyChunkText" =>
        \A k \in 1..(Len(ret.chunks) - 1) :
            /\ IsPrefix(TrailingOverlap(ret.chunks[k], SmallOverlap),
                        ret.chunks[k + 1])
            /\ Len(ret.chunks[k + 1])
                   > Len(TrailingOverlap(ret.chunks[k], SmallOverlap))

\* C19: every chunk chunkMarkdownContent returns is non-empty and neither
\* begins nor ends with whitespace, the single chunk of a text without
\* headings that is at most the maximal chunk size long included.
C19_ChunksTrimmed ==
    ret.op = "chunkMarkdownContent" =>
        \A k \in 1..Len(ret.chunks) :
            /\ Len(ret.chunks[k]) > 0
            /\ trim(ret.chunks[k]) = ret.chunks[k]

\* C20: whatever indexing runs, file events, snapshot saves and snapshot
\* loads have happened, every chunk of the store has as its id its own path
\* followed by an index, and it is stored under that id once.
C20_IdIsPathAndIndex ==
    /\ UniqueIds(db)
    /\ \A k \in 1..Len(db) :
           /\ db[k].id[1] = db[k].path
           /\ db[k].id[2] \in 0..MaxIndex

\* a session that loaded a snapshot and whose store holds the chunk of a
\* note that was renamed and indexed again under its new path
C20_Witness ==
    /\ ret.op = "onload"
    /\ ret.loadedEmbeddings
    /\ phase = "ready"
    /\ \E k \in 1..Len(db) :
           /\ db[k].id = <<PathB, 0>>
           /\ db[k].path = PathB
           /\ db[k].mtime = 1

\* C21: a searchSimilar, with or without reranking, and a performSearch
\* leave the store as it was: the same chunks in the same order, each with
\* its id, path, text and embedding; the boosted scores are in the results
\* only.
C21_SearchLeavesStore ==
    [][ret'.op \in {"searchSimilar", "performSearch"} =>
          /\ Len(db') = Len(db)
          /\ \A k \in 1..Len(db) : db'[k] = db[k]]_vars

\* a reranked search over a store of several chunks that returned a
\* boosted result
C21_Witness ==
    /\ Searched
    /\ ret.useReranking
    /\ Len(db) >= 2
    /\ \E i \in 1..Len(ret.results) :
           /\ exactMatch(ret.query, ret.results[i].text)
           /\ ret.results[i].score >= BoostFactor

\* the notes the question of the last answerQuestion found
NotesOfQuestion ==
    searchSimilar(db, ret.question, embed(em, ret.question, "ok").data,
                  ret.settings.contextLength, ret.settings.useReranking)

\* the completion call of the last answerQuestion was made and failed
CompletionFailed ==
    /\ ret.op = "answerQuestion"
    /\ ensureOpenRouter(ret.rag, ret.settings).openRouter
    /\ Len(NotesOfQuestion) > 0
    /\ callOpenRouter(ret.settings,
                      createPrompt(ret.question,
                                   formatContextFromNotes(NotesOfQuestion))).threw

\* C22: when the completion call of an answerQuestion fails, the call does
\* not throw: it returns an answer that is "Error: " and the error's
\* message, with no sources and shouldShowSources false. No answerQuestion
\* throws, and none calls the completion provider more than once.
C22_CompletionFailureIsAnswer ==
    /\ ret.op = "answerQuestion" => (~ret.threw /\ ret.completionCalls <= 1)
    /\ CompletionFailed =>
           /\ ret.completionCalls = 1
           /\ ret.result.answer[1] = "Error: "
           /\ ret.result.answer[2] = "OpenRouter API key not configured"
           /\ ret.result.sources = <<>>
           /\ ret.result.shouldShowSources = FALSE

\* a question over a store that has notes for it, asked of a service whose
\* client was made and whose key was cleared afterwards
C22_Witness ==
    /\ CompletionFailed
    /\ ret.rag.openRouter
    /\ ret.settings.openRouterApiKey = ""
    /\ Len(NotesOfQuestion) >= 2

\* C23: for the query of a search and the text of every chunk of the store,
\* the lexical-match flag of the reranker is the lexical-match flag of the
\* search, whatever whitespace the query begins or ends with and however
\* many tokens it has.
C23_SameLexicalFlag ==
    Searched =>
        \A c \in Range(db) :
            rerankExactMatch(ret.query, c.text) = exactMatch(ret.query, c.text)

\* C24: a chunk whose embedding has another length than the query's vector
\* is skipped by searchSimilar: no result of the search was made from such
\* a chunk, so that it gets no lexical boost either, even when its text
\* contains the query.
C24_MismatchedSkipped ==
    Searched =>
        \A i \in 1..Len(ret.results) :
            ~Mismatched(ChunkById(db, ret.results[i].id))

\* C25: whenever loadEmbeddingsFromDisk returns false, also for a snapshot
\* whose chunk list cannot be processed to its end, the store is what it
\* was before the call and holds none of the snapshot's chunks.
C25_FailedLoadLeavesStore ==
    (ret.op = "loadEmbeddingsFromDisk" /\ ~ret.loaded) =>
        /\ db = ret.before
        /\ "chunks" \in DOMAIN ret.savedData =>
               \A i \in 1..Len(ret.savedData.chunks) :
                   ret.savedData.chunks[i] \notin Range(db)

\* no indexFile run is in flight and no file of a full index is waiting
Quiescent == phase = "ready" /\ runs = <<>> /\ pending = <<>>

\* the ids and texts the store holds under a path
StoredUnder(path) ==
    {<<db[k].id, db[k].text>> : k \in {j \in 1..Len(db) : db[j].path = path}}

\* the ids and texts of the chunks of a file's content
ChunksOfContent(file) ==
    LET chunks == chunkMarkdownContent(file.content)
    IN  {<<<<file.path, i>>, chunks[i + 1]>> :
            i \in {j \in 0..(Len(chunks) - 1) : Len(trim(chunks[j + 1])) > 0}}

\* C26: in a session that indexed the vault from an empty store, once
\* every indexFile run has finished, overlapping runs for one document
\* included, the store holds for every document of the vault exactly the
\* chunks of the document's latest content: no chunk of an older version,
\* and every chunk of the latest one.
C26_LatestContentWins ==
    (Quiescent /\ ret.op = "onload" /\ ~ret.loadedEmbeddings) =>
        \A f \in liveFiles(vault) :
            StoredUnder(vault[f].path) = ChunksOfContent(vault[f])

\* the paths no document of the vault has: the paths of deleted documents
\* and the old paths of renamed ones, unless a document was created there
PathsGone == {path \in Paths : \A f \in liveFiles(vault) : vault[f].path # path}

\* C27: in a session that indexed the vault from an empty store, every
\* chunk was added by a run of the session, so a chunk under a path no
\* document has is a chunk of a document deleted or renamed while the
\* handlers were registered. Once the delete or rename event is handled
\* and every indexFile run has finished, the store holds no chunk under
\* the deleted path or the old path.
C27_NoChunkUnderGonePath ==
    (Quiescent /\ ret.op = "onload" /\ ~ret.loadedEmbeddings) =>
        \A k \in 1..Len(db) : db[k].path \notin PathsGone

\* data.json holds a snapshot with chunks
HasSnapshot(data) == ~noSavedChunks(data)

\* the settings of the plugin object that took the step: onunload drops
\* the object with its settings
SettingsOfStep == IF phase' = "unloaded" THEN settings ELSE settings'

\* C28: a write of data.json by saveSettings or by saveEmbeddingsToDisk
\* leaves a file from which loadSettings restores the settings the plugin
\* has (the ones it loaded or last saved), and, if the file held a
\* snapshot, a file that still holds a snapshot: the one it held or the one
\* the step saved.
C28_SettingsAndSnapshotCoexist ==
    [][disk' # disk =>
          /\ loadSettings(disk') = SettingsOfStep
          /\ HasSnapshot(disk) =>
                 /\ HasSnapshot(disk')
                 /\ \/ disk'.chunks = disk.chunks
                    \/ \E t \in {now, now'} :
                           disk'.chunks = saveEmbeddingsToDisk(db, em, disk, t).chunks]_vars

\* C29: every snapshot in data.json names the model that produced each
\* of its vectors: each vector has the length of the vectors of the model
\* the snapshot's modelName names, also after a change of the embedding
\* model.
C29_SnapshotNamesModelOfVectors ==
    HasSnapshot(disk) =>
        \A i \in 1..Len(disk.chunks) :
            VecLength(disk.chunks[i].embedding) = ModelDimension(disk.modelName)

\* every chunk of the store d is a chunk of the current content of a
\* document of the vault v
StoreCurrent(d, v) ==
    \A k \in 1..Len(d) :
        \E f \in liveFiles(v) :
            /\ v[f].path = d[k].path
            /\ <<d[k].id, d[k].text>> \in ChunksOfContent(v[f])

\* C30: when the onLayoutReady callback ends the startup without an
\* indexFile run in flight (a snapshot was loaded, or the vault has no
\* document), every chunk of the store belongs to a document of the
\* vault and has text of the document's current content, whatever
\* happened to the vault while the plugin was not running.
C30_StoreCurrentAfterStartup ==
    [][(phase = "loaded" /\ phase' = "ready" /\ runs' = <<>> /\ pending' = <<>>)
          => StoreCurrent(db', vault')]_vars

=============================================================================
